---------------------------- MODULE Spec2Model ----------------------------
(***************************************************************************)
(* Block-protocol engine of the M24SR dynamic NFC tag driver               *)
(* (src/m24sr_driver.cpp): CRC16, response validator, I-block builder,     *)
(* wait-time-extension sub-protocol and the per-command session state      *)
(* machine, in synchronous and asynchronous mode.                          *)
(*                                                                         *)
(* C arrays are 0-based, TLA+ sequences 1-based: data[k] of the source is  *)
(* data[k + 1] here.                                                       *)
(***************************************************************************)
EXTENDS Integers, Sequences, FiniteSets, TLC

(***************************************************************************)
(* Bounds of the model.                                                    *)
(***************************************************************************)
\* largest length argument of read_binary / st_read_binary / update_binary
MaxLen == 2
\* largest number of wait-time acknowledgements within one command
MaxWtx == 2
\* largest number of completion callbacks recorded for one issued command
MaxCallbacks == 2

(***************************************************************************)
(* Program constants.                                                      *)
(***************************************************************************)
MAX_OPERATION_SIZE == 246
NFC_COMMAND_SUCCESS == 36864
UB_STATUS_OFFSET == 4
LB_STATUS_OFFSET == 3
C_APDU_CLA_DEFAULT == 0
C_APDU_CLA_ST == 162
C_APDU_SELECT_FILE == 164
C_APDU_UPDATE_BINARY == 214
C_APDU_READ_BINARY == 176
C_APDU_VERIFY == 32
C_APDU_CHANGE == 36
C_APDU_DISABLE == 38
C_APDU_ENABLE == 40
C_APDU_INTERRUPT == 214
STATUSRESPONSE_NBBYTE == 5
WATINGTIMEEXTRESPONSE_NBBYTE == 4
PASSWORD_NBBYTE == 16
DESELECTREQUEST_COMMAND == <<194, 224, 180>>
SELECTAPPLICATION_COMMAND == <<210, 118, 0, 0, 133, 1, 1>>
SYSTEM_FILE_ID_BYTES == <<225, 1>>
CC_FILE_ID_BYTES == <<225, 3>>
CMD_MASK_SELECTAPPLICATION == 511
CMD_MASK_SELECTCCFILE == 383
CMD_MASK_SELECTNDEFFILE == 383
CMD_MASK_READBINARY == 415
CMD_MASK_UPDATEBINARY == 383
CMD_MASK_VERIFYBINARYWOPWD == 319
CMD_MASK_VERIFYBINARYWITHPWD == 383
CMD_MASK_CHANGEREFDATA == 383
CMD_MASK_ENABLEVERIFREQ == 287
CMD_MASK_DISABLEVERIFREQ == 287
CMD_MASK_SENDINTERRUPT == 319
CMD_MASK_GPOSTATE == 383
PCB_NEEDED == 1
CLA_NEEDED == 2
INS_NEEDED == 4
P1_NEEDED == 8
P2_NEEDED == 16
LC_NEEDED == 32
DATA_NEEDED == 64
LE_NEEDED == 128
CRC_NEEDED == 256
DID_NEEDED == 8
OFFSET_PCB == 0
MASK_BLOCK == 192
MASK_SBLOCK == 192

(***************************************************************************)
(* M24srError_t and PasswordType_t are declared in m24sr_driver.h.  The    *)
(* transport and parameter errors are kept apart from every two-byte       *)
(* status word SW1SW2 (0 .. 65535), as section 7 of the specification      *)
(* describes them.                                                         *)
(***************************************************************************)
M24SR_SUCCESS == 65536
M24SR_ERROR == 65537
M24SR_IO_ERROR_I2CTIMEOUT == 65538
M24SR_IO_ERROR_CRC == 65539
M24SR_IO_ERROR_PARAMETER == 65540
M24SR_IO_PIN_NOT_CONNECTED == 65541
NfcGpoState_t ==
    [HIGH_IMPEDANCE |-> 0, SESSION_OPENED |-> 1, WIP |-> 2, I2C_ANSWER_READY |-> 3,
     INTERRUPT |-> 4, STATE_CONTROL |-> 5]
READ_PASSWORD == 1
WRITE_PASSWORD == 2
I2C_PASSWORD == 3

(***************************************************************************)
(* Fixed-width integer arithmetic.                                         *)
(***************************************************************************)
\* ^ and & on four-bit halves, bit by bit, tabulated once
XorNibble ==
    [a \in 0..15 |-> [b \in 0..15 |->
        ((a + b) % 2)
        + 2 * (((a \div 2) + (b \div 2)) % 2)
        + 4 * (((a \div 4) + (b \div 4)) % 2)
        + 8 * (((a \div 8) + (b \div 8)) % 2)]]

AndNibble ==
    [a \in 0..15 |-> [b \in 0..15 |->
        ((a % 2) * (b % 2))
        + 2 * (((a \div 2) % 2) * ((b \div 2) % 2))
        + 4 * (((a \div 4) % 2) * ((b \div 4) % 2))
        + 8 * (((a \div 8) % 2) * ((b \div 8) % 2))]]

XOR8(a, b) == 16 * XorNibble[a \div 16][b \div 16] + XorNibble[a % 16][b % 16]

XOR16(a, b) == 256 * XOR8(a \div 256, b \div 256) + XOR8(a % 256, b % 256)

AND8(a, b) == 16 * AndNibble[a \div 16][b \div 16] + AndNibble[a % 16][b % 16]

AND16(a, b) == 256 * AND8(a \div 256, b \div 256) + AND8(a % 256, b % 256)

GETMSB(val) == AND16(val, 65280) \div 256

GETLSB(val) == AND16(val, 255)

(***************************************************************************)
(* CRC engine.                                                             *)
(***************************************************************************)
\* the last three steps of update_crc, which depend on the folded byte alone:
\* ch = ch ^ (ch << 4) in 8 bits, then (ch << 8) ^ (ch << 3) ^ (ch >> 4)
crc_spread ==
    [c1 \in 0..255 |->
        LET c2 == XOR8(c1, (c1 * 16) % 256)
        IN  XOR16(XOR16((c2 * 256) % 65536, c2 * 8), c2 \div 16)]

update_crc(ch, lpw_crc) ==
    XOR16(lpw_crc \div 256, crc_spread[XOR8(ch, AND16(lpw_crc, 255))])

\* the do-while loop of compute_crc over data[first .. last], one byte per
\* round; the rounds are evaluated in two halves to keep the evaluation shallow
RECURSIVE crc_loop(_, _, _, _)
crc_loop(data, first, last, crc16) ==
    IF first = last
    THEN update_crc(data[first], crc16)
    ELSE LET mid == (first + last) \div 2
         IN  CHOOSE result \in
                 { crc_loop(data, mid + 1, last, left)
                   : left \in {crc_loop(data, first, mid, crc16)} } : TRUE

\* --length in 8 bits: a length of 0 runs 256 rounds
compute_crc(data, length) ==
    crc_loop(data, 1, IF length % 256 = 0 THEN 256 ELSE length % 256, 25443)

\* is_correct_crc_residue reading the status one byte too far
is_correct_crc_residue_wrong_offset(data, length) ==
    LET res_crc == IF length # 0 THEN compute_crc(data, length) ELSE 0
        sw(hi, lo) == AND16(data[hi + 1] * 256, 65280) + AND16(data[lo + 1], 255)
        map(status) == IF status = NFC_COMMAND_SUCCESS THEN M24SR_SUCCESS ELSE status
    IN  IF res_crc = 0
        THEN map(sw(length - LB_STATUS_OFFSET, length - LB_STATUS_OFFSET + 1))
        ELSE IF compute_crc(data, 5) # 0
             THEN M24SR_IO_ERROR_CRC
             ELSE map(sw(1, 2))

is_correct_crc_residue(data, length) ==
    LET res_crc == IF length # 0 THEN compute_crc(data, length) ELSE 0
        sw(hi, lo) == AND16(data[hi + 1] * 256, 65280) + AND16(data[lo + 1], 255)
        map(status) == IF status = NFC_COMMAND_SUCCESS THEN M24SR_SUCCESS ELSE status
    IN  IF res_crc = 0
        THEN map(sw(length - UB_STATUS_OFFSET, length - LB_STATUS_OFFSET))
        ELSE IF compute_crc(data, 5) # 0
             THEN M24SR_IO_ERROR_CRC
             ELSE map(sw(1, 2))

(***************************************************************************)
(* Frame codec.  block_number is the function-local static of              *)
(* build_I_block_command; the operator returns the frame, its length and   *)
(* the new value of the static.  command.data is the dereferenced payload  *)
(* pointer: [ptr |-> its name, bytes |-> the bytes it points to].           *)
(***************************************************************************)
Zeros(n) == [i \in 1..n |-> 0]

\* build_I_block_command appending the high byte of the CRC first
build_I_block_command_crc_high_first(command_mask, command, did, block_number) ==
    LET need(flag) == AND16(command_mask, flag) # 0
        bn   == IF need(PCB_NEEDED) THEN 1 - block_number ELSE block_number
        pcb  == IF need(PCB_NEEDED) THEN <<2 + bn>> ELSE <<>>
        didb == IF AND8(bn, DID_NEEDED) # 0 THEN <<did>> ELSE <<>>
        cla  == IF need(CLA_NEEDED) THEN <<command.CLA>> ELSE <<>>
        ins  == IF need(INS_NEEDED) THEN <<command.INS>> ELSE <<>>
        p1   == IF need(P1_NEEDED) THEN <<command.P1>> ELSE <<>>
        p2   == IF need(P2_NEEDED) THEN <<command.P2>> ELSE <<>>
        lc   == IF need(LC_NEEDED) THEN <<command.LC>> ELSE <<>>
        dat  == IF need(DATA_NEEDED)
                THEN IF command.data.ptr # "null"
                     THEN SubSeq(command.data.bytes, 1, command.LC)
                     ELSE Zeros(command.LC)
                ELSE <<>>
        le   == IF need(LE_NEEDED) THEN <<command.LE>> ELSE <<>>
        body == pcb \o didb \o cla \o ins \o p1 \o p2 \o lc \o dat \o le
        crc16 == compute_crc(body, Len(body) % 256)
        crc  == IF need(CRC_NEEDED) THEN <<GETMSB(crc16), GETLSB(crc16)>> ELSE <<>>
    IN  [buffer |-> body \o crc, length |-> Len(body \o crc), block_number |-> bn]

\* build_I_block_command writing P1 in the place of P2 as well
build_I_block_command_p1_twice(command_mask, command, did, block_number) ==
    LET need(flag) == AND16(command_mask, flag) # 0
        bn   == IF need(PCB_NEEDED) THEN 1 - block_number ELSE block_number
        pcb  == IF need(PCB_NEEDED) THEN <<2 + bn>> ELSE <<>>
        didb == IF AND8(bn, DID_NEEDED) # 0 THEN <<did>> ELSE <<>>
        cla  == IF need(CLA_NEEDED) THEN <<command.CLA>> ELSE <<>>
        ins  == IF need(INS_NEEDED) THEN <<command.INS>> ELSE <<>>
        p1   == IF need(P1_NEEDED) THEN <<command.P1>> ELSE <<>>
        p2   == IF need(P2_NEEDED) THEN <<command.P1>> ELSE <<>>
        lc   == IF need(LC_NEEDED) THEN <<command.LC>> ELSE <<>>
        dat  == IF need(DATA_NEEDED)
                THEN IF command.data.ptr # "null"
                     THEN SubSeq(command.data.bytes, 1, command.LC)
                     ELSE Zeros(command.LC)
                ELSE <<>>
        le   == IF need(LE_NEEDED) THEN <<command.LE>> ELSE <<>>
        body == pcb \o didb \o cla \o ins \o p1 \o p2 \o lc \o dat \o le
        crc16 == compute_crc(body, Len(body) % 256)
        crc  == IF need(CRC_NEEDED) THEN <<GETLSB(crc16), GETMSB(crc16)>> ELSE <<>>
    IN  [buffer |-> body \o crc, length |-> Len(body \o crc), block_number |-> bn]

\* build_I_block_command leaving the payload out when its pointer is null
build_I_block_command_null_payload_skipped(command_mask, command, did, block_number) ==
    LET need(flag) == AND16(command_mask, flag) # 0
        bn   == IF need(PCB_NEEDED) THEN 1 - block_number ELSE block_number
        pcb  == IF need(PCB_NEEDED) THEN <<2 + bn>> ELSE <<>>
        didb == IF AND8(bn, DID_NEEDED) # 0 THEN <<did>> ELSE <<>>
        cla  == IF need(CLA_NEEDED) THEN <<command.CLA>> ELSE <<>>
        ins  == IF need(INS_NEEDED) THEN <<command.INS>> ELSE <<>>
        p1   == IF need(P1_NEEDED) THEN <<command.P1>> ELSE <<>>
        p2   == IF need(P2_NEEDED) THEN <<command.P2>> ELSE <<>>
        lc   == IF need(LC_NEEDED) THEN <<command.LC>> ELSE <<>>
        dat  == IF need(DATA_NEEDED) /\ command.data.ptr # "null"
                THEN SubSeq(command.data.bytes, 1, command.LC)
                ELSE <<>>
        le   == IF need(LE_NEEDED) THEN <<command.LE>> ELSE <<>>
        body == pcb \o didb \o cla \o ins \o p1 \o p2 \o lc \o dat \o le
        crc16 == compute_crc(body, Len(body) % 256)
        crc  == IF need(CRC_NEEDED) THEN <<GETLSB(crc16), GETMSB(crc16)>> ELSE <<>>
    IN  [buffer |-> body \o crc, length |-> Len(body \o crc), block_number |-> bn]

\* build_I_block_command without the toggle of the block number
build_I_block_command_no_toggle(command_mask, command, did, block_number) ==
    LET need(flag) == AND16(command_mask, flag) # 0
        bn   == block_number
        pcb  == IF need(PCB_NEEDED) THEN <<2 + bn>> ELSE <<>>
        didb == IF AND8(bn, DID_NEEDED) # 0 THEN <<did>> ELSE <<>>
        cla  == IF need(CLA_NEEDED) THEN <<command.CLA>> ELSE <<>>
        ins  == IF need(INS_NEEDED) THEN <<command.INS>> ELSE <<>>
        p1   == IF need(P1_NEEDED) THEN <<command.P1>> ELSE <<>>
        p2   == IF need(P2_NEEDED) THEN <<command.P2>> ELSE <<>>
        lc   == IF need(LC_NEEDED) THEN <<command.LC>> ELSE <<>>
        dat  == IF need(DATA_NEEDED)
                THEN IF command.data.ptr # "null"
                     THEN SubSeq(command.data.bytes, 1, command.LC)
                     ELSE Zeros(command.LC)
                ELSE <<>>
        le   == IF need(LE_NEEDED) THEN <<command.LE>> ELSE <<>>
        body == pcb \o didb \o cla \o ins \o p1 \o p2 \o lc \o dat \o le
        crc16 == compute_crc(body, Len(body) % 256)
        crc  == IF need(CRC_NEEDED) THEN <<GETLSB(crc16), GETMSB(crc16)>> ELSE <<>>
    IN  [buffer |-> body \o crc, length |-> Len(body \o crc), block_number |-> bn]

build_I_block_command(command_mask, command, did, block_number) ==
    LET need(flag) == AND16(command_mask, flag) # 0
        bn   == IF need(PCB_NEEDED) THEN 1 - block_number ELSE block_number
        pcb  == IF need(PCB_NEEDED) THEN <<2 + bn>> ELSE <<>>
        didb == IF AND8(bn, DID_NEEDED) # 0 THEN <<did>> ELSE <<>>
        cla  == IF need(CLA_NEEDED) THEN <<command.CLA>> ELSE <<>>
        ins  == IF need(INS_NEEDED) THEN <<command.INS>> ELSE <<>>
        p1   == IF need(P1_NEEDED) THEN <<command.P1>> ELSE <<>>
        p2   == IF need(P2_NEEDED) THEN <<command.P2>> ELSE <<>>
        lc   == IF need(LC_NEEDED) THEN <<command.LC>> ELSE <<>>
        dat  == IF need(DATA_NEEDED)
                THEN IF command.data.ptr # "null"
                     THEN SubSeq(command.data.bytes, 1, command.LC)
                     ELSE Zeros(command.LC)
                ELSE <<>>
        le   == IF need(LE_NEEDED) THEN <<command.LE>> ELSE <<>>
        body == pcb \o didb \o cla \o ins \o p1 \o p2 \o lc \o dat \o le
        crc16 == compute_crc(body, Len(body) % 256)
        crc  == IF need(CRC_NEEDED) THEN <<GETLSB(crc16), GETMSB(crc16)>> ELSE <<>>
    IN  [buffer |-> body \o crc, length |-> Len(body \o crc), block_number |-> bn]

\* is_S_block testing the top bit of the header only
is_S_block_top_bit_only(buffer) ==
    IF AND8(buffer[OFFSET_PCB + 1], 128) = 128 THEN M24SR_SUCCESS ELSE M24SR_ERROR

is_S_block(buffer) ==
    IF AND8(buffer[OFFSET_PCB + 1], MASK_BLOCK) = MASK_SBLOCK THEN M24SR_SUCCESS ELSE M24SR_ERROR

(***************************************************************************)
(* State of one driver instance, its transport and its caller.             *)
(***************************************************************************)
VARIABLES
    block_number,          \* the static sequence bit of build_I_block_command
    _last_command,         \* the pending command kind
    _last_command_data,    \* [offset, length, data] of the pending command
    _communication_type,   \* "SYNC" or "ASYNC"
    _buffer,               \* the scratch buffer: the frame last built or received in it
    mem,                   \* the caller's read buffer, by pointer name
    issued,                \* the command operation issued last, with its arguments
    done,                  \* the issued command has finished
    hist,                  \* transport events and callbacks since the command was issued
    last                   \* the operation executed last and its return value

vars == <<block_number, _last_command, _last_command_data, _communication_type,
          _buffer, mem, issued, done, hist, last>>

NONE == "NONE"

NoCommand == [op |-> "none", offset |-> 0, length |-> 0, data |-> "null"]

\* arguments the caller passes
Offsets == {0, 258}

Lengths == 0..MaxLen

UpdateLengths == {0, MaxLen}

PasswordTypes == {READ_PASSWORD, I2C_PASSWORD, I2C_PASSWORD + 1}

\* what the caller's pointers point to
Canary == [i \in 1..MaxLen |-> 238]

WriteData == [i \in 1..MaxLen |-> 160 + i]

Password == [i \in 1..PASSWORD_NBBYTE |-> i]

\* length arguments above the largest single operation, up to the largest
\* value of the eight-bit argument
OversizeLengths == {MAX_OPERATION_SIZE + 1, 255}

\* buffers of the caller large enough for such a request
LongCanary == [i \in 1..255 |-> 238]

LongWriteData == [i \in 1..255 |-> i]

Deref(m, ptr) ==
    CASE ptr = "rbuf" -> m["rbuf"]
      [] ptr = "wbuf" -> WriteData
      [] ptr = "wlong" -> LongWriteData
      [] ptr = "pwd"  -> Password
      [] OTHER        -> <<>>

(***************************************************************************)
(* Frames the chip (or a corrupting link) may answer with.                 *)
(***************************************************************************)
WithCrc(body) ==
    LET crc16 == compute_crc(body, Len(body))
    IN  body \o <<GETLSB(crc16), GETMSB(crc16)>>

Corrupt(frame) == [frame EXCEPT ![Len(frame)] = XOR8(@, 1)]

StatusFrame(pcb, sw) == WithCrc(<<pcb, sw \div 256, sw % 256>>)

\* a wait-time-extension request: S(WTX) header, FWT byte, CRC, and the fifth
\* byte the driver reads after it
WtxFrame(fwt) == WithCrc(<<242, fwt>>) \o <<0>>

\* the S(DESELECT) answer, read into a longer buffer
DeselectFrame(n) == SubSeq(<<194, 224, 180, 0, 0>>, 1, n)

Resp5 ==
    { StatusFrame(2, NFC_COMMAND_SUCCESS),
      StatusFrame(2, 27266),
      Corrupt(StatusFrame(2, NFC_COMMAND_SUCCESS)),
      WtxFrame(11),
      [WtxFrame(11) EXCEPT ![3] = XOR8(@, 1)],
      DeselectFrame(5) }

DataPatterns(n) == { [i \in 1..n |-> (16 + i) % 256], [i \in 1..n |-> 34] }

ReadFrame(d, sw) == WithCrc(<<2>> \o d \o <<sw \div 256, sw % 256>>)

\* a frame whose first five bytes are a complete success frame and whose
\* residue over the whole length is not zero
Crafted(n) ==
    { f \in { StatusFrame(2, NFC_COMMAND_SUCCESS) \o [i \in 1..n |-> 1] } :
        compute_crc(f, n + 5) # 0 }

ReadResp(n) ==
    { ReadFrame(d, NFC_COMMAND_SUCCESS) : d \in DataPatterns(n) }
    \cup { ReadFrame([i \in 1..n |-> (16 + i) % 256], 27266),
           Corrupt(ReadFrame([i \in 1..n |-> (16 + i) % 256], NFC_COMMAND_SUCCESS)) }
    \cup Crafted(n)

ReadRespTable == [n \in 1..MaxLen |-> ReadResp(n)]

Responses(n) ==
    IF n = 5 THEN Resp5
    ELSE IF n < 5 THEN {DeselectFrame(n)}
    ELSE IF n - 5 \in DOMAIN ReadRespTable THEN ReadRespTable[n - 5]
    ELSE ReadResp(n - 5)

\* blocks of the remaining kinds, which a link that is not restricted to the
\* answers of the chip can deliver: a receive-ready block (header 0xA2, top
\* bits 10) and a block with the reserved top bits 01
OtherBlocks(link, n) ==
    IF link = "any" /\ n = STATUSRESPONSE_NBBYTE
    THEN { StatusFrame(162, NFC_COMMAND_SUCCESS), StatusFrame(66, 27266) }
    ELSE {}

(***************************************************************************)
(* A call context c: the driver's fields, the caller's memory, what the    *)
(* call has done so far (io, cbs), the status of the innermost call that   *)
(* returned (ret), the bytes of the last receive (rx), and whether the     *)
(* call ended by leaving its request pending (armed), and the link the     *)
(* transport reads from.  Every operation                                  *)
(* maps a context to the set of contexts the transport and the chip can    *)
(* make it end in.  Every transport event records the pending command kind *)
(* at the moment the transport is called.                                  *)
(***************************************************************************)
Bind(S, f(_)) == UNION { f(c) : c \in S }

Ret(c, status) == [c EXCEPT !.ret = status]

Arm(c) == [c EXCEPT !.armed = TRUE]

Callback(c, name, status, offset, data, length) ==
    [c EXCEPT !.cbs = Append(@, [cb |-> name, status |-> status, offset |-> offset,
                                  data |-> data, length |-> length])]

IsAck(e) == e.t = "send" /\ e.frame[1] = 242

Acks(io) == Len(SelectSeq(io, IsAck))

IsSFrame(e) == e.t = "recv" /\ e.ok /\ is_S_block(e.frame) = M24SR_SUCCESS

SFrames(io) == Len(SelectSeq(io, IsSFrame))

io_send_i2c_command(c, length, buffer) ==
    { [c EXCEPT !.io = Append(@, [t |-> "send", frame |-> SubSeq(buffer, 1, length % 256),
                                  n |-> length % 256, ok |-> ok, pending |-> c.lc]),
                !.ret = IF ok THEN M24SR_SUCCESS ELSE M24SR_IO_ERROR_I2CTIMEOUT]
      : ok \in BOOLEAN }

\* the chip sends at most MaxWtx supervisory frames within one command
io_receive_i2c_response(c, length, buffer) ==
    { [c EXCEPT !.io = Append(@, [t |-> "recv", frame |-> <<>>, n |-> length % 256,
                                  ok |-> FALSE, pending |-> c.lc]),
                !.ret = M24SR_IO_ERROR_I2CTIMEOUT] }
    \cup
    { [c EXCEPT !.io = Append(@, [t |-> "recv", frame |-> f, n |-> length % 256, ok |-> TRUE,
                                  pending |-> c.lc]),
                !.rx = f,
                !.buf = IF buffer = "_buffer" THEN f ELSE @,
                !.ret = M24SR_SUCCESS]
      : f \in { g \in Responses(length % 256) \cup OtherBlocks(c.link, length % 256) :
                  c.sframes + SFrames(c.io) < MaxWtx \/ is_S_block(g) # M24SR_SUCCESS } }

\* io_poll_i2c giving up and reporting the write that was not acknowledged
io_poll_i2c_reporting_failure(c) ==
    [c EXCEPT !.io = Append(@, [t |-> "poll", frame |-> <<>>, n |-> 0, ok |-> FALSE, pending |-> c.lc]),
              !.ret = M24SR_IO_ERROR_I2CTIMEOUT]


io_poll_i2c(c) ==
    [c EXCEPT !.io = Append(@, [t |-> "poll", frame |-> <<>>, n |-> 0, ok |-> TRUE, pending |-> c.lc]),
              !.ret = M24SR_SUCCESS]

(***************************************************************************)
(* Command operations and their receive handlers.                          *)
(***************************************************************************)
receive_deselect(c) ==
    Bind(io_receive_i2c_response(c, 4, "buffer"),
         LAMBDA r : { Callback(r, "on_deselect", r.ret, 0, "null", 0) })

deselect(c) ==
    Bind(io_send_i2c_command(c, 3, DESELECTREQUEST_COMMAND),
         LAMBDA s :
            LET s1 == IF s.ret # M24SR_SUCCESS
                      THEN Callback(s, "on_deselect", s.ret, 0, "null", 0)
                      ELSE s
                s2 == [s1 EXCEPT !.lc = "DESELECT"]
            IN  IF s2.mode = "SYNC"
                THEN LET p == io_poll_i2c(s2)
                     IN  IF p.ret = M24SR_SUCCESS
                         THEN receive_deselect(p)
                         ELSE { Callback([p EXCEPT !.lc = NONE],
                                         "on_selected_application", p.ret, 0, "null", 0) }
                ELSE { Arm(Ret(s2, M24SR_SUCCESS)) })

receive_select_application(c) ==
    Bind(io_receive_i2c_response([c EXCEPT !.lc = NONE], STATUSRESPONSE_NBBYTE, "data_in"),
         LAMBDA r :
            IF r.ret # M24SR_SUCCESS
            THEN { Callback(r, "on_selected_application", r.ret, 0, "null", 0) }
            ELSE LET status == is_correct_crc_residue(r.rx, STATUSRESPONSE_NBBYTE)
                 IN  { Ret(Callback(r, "on_selected_application", status, 0, "null", 0), status) })

\* the C_APDU that select_application fills in
select_application_command ==
    [CLA |-> C_APDU_CLA_DEFAULT, INS |-> C_APDU_SELECT_FILE,
     P1 |-> GETMSB(1024), P2 |-> GETLSB(1024),
     LC |-> Len(SELECTAPPLICATION_COMMAND),
     data |-> [ptr |-> "data_out", bytes |-> SELECTAPPLICATION_COMMAND],
     LE |-> 0]

select_application(c) ==
    LET command == select_application_command
        b  == build_I_block_command(CMD_MASK_SELECTAPPLICATION, command, c.did, c.bn)
        c1 == [c EXCEPT !.bn = b.block_number, !.buf = b.buffer]
    IN  Bind(io_send_i2c_command(c1, b.length, b.buffer),
             LAMBDA s :
                IF s.ret # M24SR_SUCCESS
                THEN { Callback(s, "on_selected_application", s.ret, 0, "null", 0) }
                ELSE LET s1 == [s EXCEPT !.lc = "SELECT_APPLICATION"]
                     IN  IF s1.mode = "SYNC"
                         THEN LET p == io_poll_i2c(s1)
                              IN  IF p.ret = M24SR_SUCCESS
                                  THEN receive_select_application(p)
                                  ELSE { Callback([p EXCEPT !.lc = NONE],
                                                  "on_selected_application", p.ret, 0, "null", 0) }
                         ELSE { Arm(Ret(s1, M24SR_SUCCESS)) })

receive_select_cc_file(c) ==
    Bind(io_receive_i2c_response([c EXCEPT !.lc = NONE], STATUSRESPONSE_NBBYTE, "data_in"),
         LAMBDA r :
            IF r.ret # M24SR_SUCCESS
            THEN { Callback(r, "on_selected_cc_file", r.ret, 0, "null", 0) }
            ELSE LET status == is_correct_crc_residue(r.rx, STATUSRESPONSE_NBBYTE)
                 IN  { Ret(Callback(r, "on_selected_cc_file", status, 0, "null", 0), status) })

\* the C_APDU that select_cc_file fills in
select_cc_file_command ==
    [CLA |-> C_APDU_CLA_DEFAULT, INS |-> C_APDU_SELECT_FILE,
     P1 |-> GETMSB(12), P2 |-> GETLSB(12),
     LC |-> Len(CC_FILE_ID_BYTES),
     data |-> [ptr |-> "data_out", bytes |-> CC_FILE_ID_BYTES]]

select_cc_file(c) ==
    LET command == select_cc_file_command
        b  == build_I_block_command(CMD_MASK_SELECTCCFILE, command, c.did, c.bn)
        c1 == [c EXCEPT !.bn = b.block_number, !.buf = b.buffer]
    IN  Bind(io_send_i2c_command(c1, b.length, b.buffer),
             LAMBDA s :
                IF s.ret # M24SR_SUCCESS
                THEN { Callback(s, "on_selected_cc_file", s.ret, 0, "null", 0) }
                ELSE LET s1 == [s EXCEPT !.lc = "SELECT_CC_FILE"]
                     IN  IF s1.mode = "SYNC"
                         THEN LET p == io_poll_i2c(s1)
                              IN  IF p.ret = M24SR_SUCCESS
                                  THEN receive_select_cc_file(p)
                                  ELSE { Callback([p EXCEPT !.lc = NONE],
                                                  "on_selected_cc_file", p.ret, 0, "null", 0) }
                         ELSE { Arm(Ret(s1, M24SR_SUCCESS)) })

receive_select_system_file(c) ==
    Bind(io_receive_i2c_response([c EXCEPT !.lc = NONE], STATUSRESPONSE_NBBYTE, "data_in"),
         LAMBDA r :
            IF r.ret # M24SR_SUCCESS
            THEN { Callback(r, "on_selected_system_file", r.ret, 0, "null", 0) }
            ELSE LET status == is_correct_crc_residue(r.rx, STATUSRESPONSE_NBBYTE)
                 IN  { Ret(Callback(r, "on_selected_system_file", status, 0, "null", 0), status) })

\* the C_APDU that select_system_file fills in
select_system_file_command ==
    [CLA |-> C_APDU_CLA_DEFAULT, INS |-> C_APDU_SELECT_FILE,
     P1 |-> GETMSB(12), P2 |-> GETLSB(12),
     LC |-> Len(SYSTEM_FILE_ID_BYTES),
     data |-> [ptr |-> "data_out", bytes |-> SYSTEM_FILE_ID_BYTES]]

select_system_file(c) ==
    LET command == select_system_file_command
        b  == build_I_block_command(CMD_MASK_SELECTCCFILE, command, c.did, c.bn)
        c1 == [c EXCEPT !.bn = b.block_number, !.buf = b.buffer]
    IN  Bind(io_send_i2c_command(c1, b.length, b.buffer),
             LAMBDA s :
                IF s.ret # M24SR_SUCCESS
                THEN { Callback(s, "on_selected_system_file", s.ret, 0, "null", 0) }
                ELSE LET s1 == [s EXCEPT !.lc = "SELECT_SYSTEM_FILE"]
                     IN  IF s1.mode = "SYNC"
                         THEN LET p == io_poll_i2c(s1)
                              IN  IF p.ret = M24SR_SUCCESS
                                  THEN receive_select_system_file(p)
                                  ELSE { Callback([p EXCEPT !.lc = NONE],
                                                  "on_selected_system_file", p.ret, 0, "null", 0) }
                         ELSE { Arm(Ret(s1, M24SR_SUCCESS)) })

receive_select_ndef_file(c) ==
    Bind(io_receive_i2c_response([c EXCEPT !.lc = NONE], STATUSRESPONSE_NBBYTE, "data_in"),
         LAMBDA r :
            IF r.ret # M24SR_SUCCESS
            THEN { Callback(r, "on_selected_ndef_file", r.ret, 0, "null", 0) }
            ELSE LET status == is_correct_crc_residue(r.rx, STATUSRESPONSE_NBBYTE)
                 IN  { Ret(Callback(r, "on_selected_ndef_file", status, 0, "null", 0), status) })

\* the C_APDU that select_ndef_file fills in
select_ndef_file_command(ndef_file_id) ==
    [CLA |-> C_APDU_CLA_DEFAULT, INS |-> C_APDU_SELECT_FILE,
     P1 |-> GETMSB(12), P2 |-> GETLSB(12),
     LC |-> Len(<<GETMSB(ndef_file_id), GETLSB(ndef_file_id)>>),
     data |-> [ptr |-> "data_out", bytes |-> <<GETMSB(ndef_file_id), GETLSB(ndef_file_id)>>]]

select_ndef_file(c, ndef_file_id) ==
    LET command == select_ndef_file_command(ndef_file_id)
        b  == build_I_block_command(CMD_MASK_SELECTNDEFFILE, command, c.did, c.bn)
        c1 == [c EXCEPT !.bn = b.block_number, !.buf = b.buffer]
    IN  Bind(io_send_i2c_command(c1, b.length, b.buffer),
             LAMBDA s :
                IF s.ret # M24SR_SUCCESS
                THEN { s }
                ELSE LET s1 == [s EXCEPT !.lc = "SELECT_NDEF_FILE"]
                     IN  IF s1.mode = "SYNC"
                         THEN LET p == io_poll_i2c(s1)
                              IN  IF p.ret = M24SR_SUCCESS
                                  THEN receive_select_ndef_file(p)
                                  ELSE { Callback([p EXCEPT !.lc = NONE],
                                                  "on_selected_ndef_file", p.ret, 0, "null", 0) }
                         ELSE { Arm(Ret(s1, M24SR_SUCCESS)) })

\* memcpy(dest, src, n) into the caller's memory
memcpy(m, dest, src, n) ==
    [m EXCEPT ![dest] = SubSeq(src, 1, n) \o SubSeq(@, n + 1, Len(@))]

\* receive_read_binary copying from _buffer[0] instead of _buffer[1]
receive_read_binary_from_header(c) ==
    LET length == c.lcd.length
        offset == c.lcd.offset
        data   == c.lcd.data
    IN  Bind(io_receive_i2c_response([c EXCEPT !.lc = NONE], length + STATUSRESPONSE_NBBYTE, "_buffer"),
             LAMBDA r :
                IF r.ret # M24SR_SUCCESS
                THEN { Callback(r, "on_read_byte", r.ret, offset, data, length) }
                ELSE LET r1 == [r EXCEPT !.buf = r.rx]
                         status == is_correct_crc_residue(r1.buf,
                                       (length + STATUSRESPONSE_NBBYTE) % 256)
                     IN  IF status # M24SR_SUCCESS
                         THEN { Ret(Callback(r1, "on_read_byte", status, offset, data, length),
                                    status) }
                         ELSE LET r2 == [r1 EXCEPT !.mem =
                                             memcpy(@, r1.lcd.data,
                                                    SubSeq(r1.buf, 1, Len(r1.buf)), length)]
                              IN  { Ret(Callback(r2, "on_read_byte", status, offset, data, length),
                                        status) })

receive_read_binary(c) ==
    LET length == c.lcd.length
        offset == c.lcd.offset
        data   == c.lcd.data
    IN  Bind(io_receive_i2c_response([c EXCEPT !.lc = NONE], length + STATUSRESPONSE_NBBYTE, "_buffer"),
             LAMBDA r :
                IF r.ret # M24SR_SUCCESS
                THEN { Callback(r, "on_read_byte", r.ret, offset, data, length) }
                ELSE LET r1 == [r EXCEPT !.buf = r.rx]
                         status == is_correct_crc_residue(r1.buf,
                                       (length + STATUSRESPONSE_NBBYTE) % 256)
                     IN  IF status # M24SR_SUCCESS
                         THEN { Ret(Callback(r1, "on_read_byte", status, offset, data, length),
                                    status) }
                         ELSE LET r2 == [r1 EXCEPT !.mem =
                                             memcpy(@, r1.lcd.data,
                                                    SubSeq(r1.buf, 2, Len(r1.buf)), length)]
                              IN  { Ret(Callback(r2, "on_read_byte", status, offset, data, length),
                                        status) })

\* the C_APDU that read_binary fills in
read_binary_command(offset, length) ==
    [CLA |-> C_APDU_CLA_DEFAULT, INS |-> C_APDU_READ_BINARY,
     P1 |-> GETMSB(offset), P2 |-> GETLSB(offset), LE |-> length]

\* read_binary waiting for the response whatever the communication type
read_binary_blocking(c, offset, len, buffer) ==
    LET length  == IF len > MAX_OPERATION_SIZE THEN MAX_OPERATION_SIZE ELSE len
        command == read_binary_command(offset, length)
        b  == build_I_block_command(CMD_MASK_READBINARY, command, c.did, c.bn)
        c1 == [c EXCEPT !.bn = b.block_number, !.buf = b.buffer]
    IN  Bind(io_send_i2c_command(c1, b.length, b.buffer),
             LAMBDA s :
                IF s.ret # M24SR_SUCCESS
                THEN { Callback(s, "on_read_byte", s.ret, offset, buffer, length) }
                ELSE LET s1 == [s EXCEPT !.lc = "READ", !.lcd.data = buffer,
                                         !.lcd.length = length, !.lcd.offset = offset]
                         p  == io_poll_i2c(s1)
                     IN  receive_read_binary(p))


read_binary(c, offset, len, buffer) ==
    LET length  == IF len > MAX_OPERATION_SIZE THEN MAX_OPERATION_SIZE ELSE len
        command == read_binary_command(offset, length)
        b  == build_I_block_command(CMD_MASK_READBINARY, command, c.did, c.bn)
        c1 == [c EXCEPT !.bn = b.block_number, !.buf = b.buffer]
    IN  Bind(io_send_i2c_command(c1, b.length, b.buffer),
             LAMBDA s :
                IF s.ret # M24SR_SUCCESS
                THEN { Callback(s, "on_read_byte", s.ret, offset, buffer, length) }
                ELSE LET s1 == [s EXCEPT !.lc = "READ", !.lcd.data = buffer,
                                         !.lcd.length = length, !.lcd.offset = offset]
                     IN  IF s1.mode = "SYNC"
                         THEN LET p == io_poll_i2c(s1)
                              IN  IF p.ret = M24SR_SUCCESS
                                  THEN receive_read_binary(p)
                                  ELSE { Callback([p EXCEPT !.lc = NONE],
                                                  "on_read_byte", p.ret, offset, buffer, length) }
                         ELSE { Arm(Ret(s1, M24SR_SUCCESS)) })

\* the C_APDU that st_read_binary fills in
st_read_binary_command(offset, length) ==
    [CLA |-> C_APDU_CLA_ST, INS |-> C_APDU_READ_BINARY,
     P1 |-> GETMSB(offset), P2 |-> GETLSB(offset), LE |-> length]

st_read_binary(c, offset, len, buffer) ==
    LET length  == IF len > MAX_OPERATION_SIZE THEN MAX_OPERATION_SIZE ELSE len
        command == st_read_binary_command(offset, length)
        b  == build_I_block_command(CMD_MASK_READBINARY, command, c.did, c.bn)
        c1 == [c EXCEPT !.bn = b.block_number, !.buf = b.buffer]
    IN  Bind(io_send_i2c_command(c1, b.length, b.buffer),
             LAMBDA s :
                IF s.ret # M24SR_SUCCESS
                THEN { Callback(s, "on_read_byte", s.ret, offset, buffer, length) }
                ELSE LET s1 == [s EXCEPT !.lc = "READ", !.lcd.data = buffer,
                                         !.lcd.length = length]
                     IN  IF s1.mode = "SYNC"
                         THEN LET p == io_poll_i2c(s1)
                              IN  IF p.ret = M24SR_SUCCESS
                                  THEN receive_read_binary(p)
                                  ELSE { Callback([p EXCEPT !.lc = NONE],
                                                  "on_read_byte", p.ret, offset, buffer, length) }
                         ELSE { Arm(Ret(s1, M24SR_SUCCESS)) })

RECURSIVE receive_update_binary(_), send_fwt_extension(_, _)

\* send_fwt_extension leaving the pending kind as receive_update_binary set it
send_fwt_extension_without_rearm(c, fwt_byte) ==
    LET crc16  == compute_crc(<<242, fwt_byte>>, 2)
        buffer == <<242, fwt_byte, GETLSB(crc16), GETMSB(crc16)>>
    IN  Bind(io_send_i2c_command(c, Len(buffer), buffer),
             LAMBDA s :
                IF s.ret # M24SR_SUCCESS
                THEN { s }
                ELSE IF s.mode = "SYNC"
                     THEN LET p == io_poll_i2c([s EXCEPT !.lc = "UPDATE"])
                          IN  IF p.ret = M24SR_SUCCESS
                              THEN receive_update_binary(p)
                              ELSE { Callback([p EXCEPT !.lc = NONE], "on_updated_binary",
                                              p.ret, p.lcd.offset, p.lcd.data, p.lcd.length) }
                     ELSE { Arm(Ret(s, M24SR_SUCCESS)) })

\* send_fwt_extension answering with a fixed FWT byte
send_fwt_extension_fixed_fwt(c, fwt_byte) ==
    LET crc16  == compute_crc(<<242, 1>>, 2)
        buffer == <<242, 1, GETLSB(crc16), GETMSB(crc16)>>
    IN  Bind(io_send_i2c_command(c, Len(buffer), buffer),
             LAMBDA s :
                IF s.ret # M24SR_SUCCESS
                THEN { s }
                ELSE LET s1 == [s EXCEPT !.lc = "UPDATE"]
                     IN  IF s1.mode = "SYNC"
                         THEN LET p == io_poll_i2c(s1)
                              IN  IF p.ret = M24SR_SUCCESS
                                  THEN receive_update_binary(p)
                                  ELSE { Callback([p EXCEPT !.lc = NONE], "on_updated_binary",
                                                  p.ret, p.lcd.offset, p.lcd.data, p.lcd.length) }
                         ELSE { Arm(Ret(s1, M24SR_SUCCESS)) })

send_fwt_extension(c, fwt_byte) ==
    LET crc16  == compute_crc(<<242, fwt_byte>>, 2)
        buffer == <<242, fwt_byte, GETLSB(crc16), GETMSB(crc16)>>
    IN  Bind(io_send_i2c_command(c, Len(buffer), buffer),
             LAMBDA s :
                IF s.ret # M24SR_SUCCESS
                THEN { s }
                ELSE LET s1 == [s EXCEPT !.lc = "UPDATE"]
                     IN  IF s1.mode = "SYNC"
                         THEN LET p == io_poll_i2c(s1)
                              IN  IF p.ret = M24SR_SUCCESS
                                  THEN receive_update_binary(p)
                                  ELSE { Callback([p EXCEPT !.lc = NONE], "on_updated_binary",
                                                  p.ret, p.lcd.offset, p.lcd.data, p.lcd.length) }
                         ELSE { Arm(Ret(s1, M24SR_SUCCESS)) })

receive_update_binary(c) ==
    LET length == c.lcd.length
        data   == c.lcd.data
        offset == c.lcd.offset
    IN  Bind(io_receive_i2c_response([c EXCEPT !.lc = NONE], STATUSRESPONSE_NBBYTE, "response"),
             LAMBDA r :
                IF r.ret # M24SR_SUCCESS
                THEN { Callback(r, "on_updated_binary", r.ret, offset, data, length) }
                ELSE IF is_S_block(r.rx) = M24SR_SUCCESS
                     THEN LET status == is_correct_crc_residue(r.rx, WATINGTIMEEXTRESPONSE_NBBYTE)
                          IN  IF status # M24SR_IO_ERROR_CRC
                              THEN Bind(send_fwt_extension(r, r.rx[OFFSET_PCB + 2]),
                                        LAMBDA e :
                                           IF e.ret # M24SR_SUCCESS
                                           THEN { Callback(e, "on_updated_binary", e.ret,
                                                           offset, data, length) }
                                           ELSE { e })
                              ELSE { Ret(r, status) }
                     ELSE LET status == is_correct_crc_residue(r.rx, STATUSRESPONSE_NBBYTE)
                          IN  { Ret(Callback(r, "on_updated_binary", status, offset, data, length),
                                    status) })

\* the C_APDU that update_binary fills in
update_binary_command(m, offset, length, data) ==
    [CLA |-> C_APDU_CLA_DEFAULT, INS |-> C_APDU_UPDATE_BINARY,
     P1 |-> GETMSB(offset), P2 |-> GETLSB(offset), LC |-> length,
     data |-> [ptr |-> data, bytes |-> Deref(m, data)]]

\* update_binary encoding the length it is given, without the clamp
update_binary_unclamped(c, offset, len, data) ==
    LET length  == len
        command == update_binary_command(c.mem, offset, length, data)
        b  == build_I_block_command(CMD_MASK_UPDATEBINARY, command, c.did, c.bn)
        c1 == [c EXCEPT !.bn = b.block_number, !.buf = b.buffer]
    IN  Bind(io_send_i2c_command(c1, b.length, b.buffer),
             LAMBDA s :
                IF s.ret # M24SR_SUCCESS
                THEN { Callback(s, "on_updated_binary", s.ret, offset, data, length) }
                ELSE LET s1 == [s EXCEPT !.lc = "UPDATE", !.lcd.data = data,
                                         !.lcd.length = length, !.lcd.offset = offset]
                     IN  IF s1.mode = "SYNC"
                         THEN LET p == io_poll_i2c(s1)
                              IN  IF p.ret = M24SR_SUCCESS
                                  THEN receive_update_binary(p)
                                  ELSE { Callback([p EXCEPT !.lc = NONE], "on_updated_binary",
                                                  p.ret, offset, data, length) }
                         ELSE { Arm(Ret(s1, M24SR_SUCCESS)) })


update_binary(c, offset, len, data) ==
    LET length  == IF len > MAX_OPERATION_SIZE THEN MAX_OPERATION_SIZE ELSE len
        command == update_binary_command(c.mem, offset, length, data)
        b  == build_I_block_command(CMD_MASK_UPDATEBINARY, command, c.did, c.bn)
        c1 == [c EXCEPT !.bn = b.block_number, !.buf = b.buffer]
    IN  Bind(io_send_i2c_command(c1, b.length, b.buffer),
             LAMBDA s :
                IF s.ret # M24SR_SUCCESS
                THEN { Callback(s, "on_updated_binary", s.ret, offset, data, length) }
                ELSE LET s1 == [s EXCEPT !.lc = "UPDATE", !.lcd.data = data,
                                         !.lcd.length = length, !.lcd.offset = offset]
                     IN  IF s1.mode = "SYNC"
                         THEN LET p == io_poll_i2c(s1)
                              IN  IF p.ret = M24SR_SUCCESS
                                  THEN receive_update_binary(p)
                                  ELSE { Callback([p EXCEPT !.lc = NONE], "on_updated_binary",
                                                  p.ret, offset, data, length) }
                         ELSE { Arm(Ret(s1, M24SR_SUCCESS)) })

receive_verify(c) ==
    LET type == c.lcd.offset
        data == c.lcd.data
    IN  Bind(io_receive_i2c_response([c EXCEPT !.lc = NONE], STATUSRESPONSE_NBBYTE, "respBuffer"),
             LAMBDA r :
                IF r.ret # M24SR_SUCCESS
                THEN { Callback(r, "on_verified", r.ret, type, data, 0) }
                ELSE LET status == is_correct_crc_residue(r.rx, STATUSRESPONSE_NBBYTE)
                     IN  { Ret(Callback(r, "on_verified", status, type, data, 0), status) })

\* verify_mask leaving the password bytes out whatever the password
verify_mask_without_password(password) ==
    CMD_MASK_VERIFYBINARYWOPWD

\* the mask verify encodes with: with or without the password bytes
verify_mask(password) ==
    IF password # "null" THEN CMD_MASK_VERIFYBINARYWITHPWD ELSE CMD_MASK_VERIFYBINARYWOPWD

\* the C_APDU that verify fills in
verify_command(m, password_type, password) ==
    [CLA |-> C_APDU_CLA_DEFAULT, INS |-> C_APDU_VERIFY,
     P1 |-> GETMSB(password_type), P2 |-> GETLSB(password_type),
     LC |-> IF password # "null" THEN 16 ELSE 0,
     data |-> [ptr |-> password, bytes |-> Deref(m, password)]]

verify(c, password_type, password) ==
    IF password_type > I2C_PASSWORD
    THEN { Ret(Callback(c, "on_verified", M24SR_IO_ERROR_PARAMETER, password_type, password, 0),
               M24SR_IO_ERROR_PARAMETER) }
    ELSE
    LET command == verify_command(c.mem, password_type, password)
        b  == build_I_block_command(verify_mask(password), command, c.did, c.bn)
        c1 == [c EXCEPT !.bn = b.block_number, !.buf = b.buffer]
    IN  Bind(io_send_i2c_command(c1, b.length, b.buffer),
             LAMBDA s :
                IF s.ret # M24SR_SUCCESS
                THEN { Callback(s, "on_verified", s.ret, password_type, password, 0) }
                ELSE LET s1 == [s EXCEPT !.lc = "VERIFY", !.lcd.data = password, !.lcd.offset = password_type]
                     IN  IF s1.mode = "SYNC"
                         THEN LET p == io_poll_i2c(s1)
                              IN  IF p.ret = M24SR_SUCCESS
                                  THEN receive_verify(p)
                                  ELSE { Callback([p EXCEPT !.lc = NONE], "on_verified",
                                                  p.ret, password_type, password, 0) }
                         ELSE { Arm(Ret(s1, M24SR_SUCCESS)) })

receive_change_reference_data(c) ==
    LET type == c.lcd.offset
        data == c.lcd.data
    IN  Bind(io_receive_i2c_response(c, STATUSRESPONSE_NBBYTE, "rensponse"),
             LAMBDA r :
                IF r.ret # M24SR_SUCCESS
                THEN { Callback(r, "on_change_reference_data", r.ret, type, data, 0) }
                ELSE LET status == is_correct_crc_residue(r.rx, STATUSRESPONSE_NBBYTE)
                     IN  { Ret(Callback(r, "on_change_reference_data", status, type, data, 0), status) })

\* the C_APDU that change_reference_data fills in
change_reference_data_command(m, password_type, password) ==
    [CLA |-> C_APDU_CLA_DEFAULT, INS |-> C_APDU_CHANGE,
     P1 |-> GETMSB(password_type), P2 |-> GETLSB(password_type),
     LC |-> PASSWORD_NBBYTE,
     data |-> [ptr |-> password, bytes |-> Deref(m, password)]]

change_reference_data(c, password_type, password) ==
    IF password_type > I2C_PASSWORD
    THEN { Ret(Callback(c, "on_change_reference_data", M24SR_IO_ERROR_PARAMETER,
                        password_type, password, 0),
               M24SR_IO_ERROR_PARAMETER) }
    ELSE
    LET command == change_reference_data_command(c.mem, password_type, password)
        b  == build_I_block_command(CMD_MASK_CHANGEREFDATA, command, c.did, c.bn)
        c1 == [c EXCEPT !.bn = b.block_number, !.buf = b.buffer]
    IN  Bind(io_send_i2c_command(c1, b.length, b.buffer),
             LAMBDA s :
                IF s.ret # M24SR_SUCCESS
                THEN { Callback(s, "on_change_reference_data", s.ret, password_type, password, 0) }
                ELSE LET s1 == [s EXCEPT !.lc = "CHANGE_REFERENCE_DATA", !.lcd.data = password, !.lcd.offset = password_type % 256]
                     IN  IF s1.mode = "SYNC"
                         THEN LET p == io_poll_i2c(s1)
                              IN  IF p.ret = M24SR_SUCCESS
                                  THEN receive_change_reference_data(p)
                                  ELSE { Callback([p EXCEPT !.lc = NONE], "on_change_reference_data",
                                                  p.ret, password_type, password, 0) }
                         ELSE { Arm(Ret(s1, M24SR_SUCCESS)) })

receive_enable_verification_requirement(c) ==
    LET type == c.lcd.offset
        data == "null"
    IN  Bind(io_receive_i2c_response(c, STATUSRESPONSE_NBBYTE, "rensponse"),
             LAMBDA r :
                IF r.ret # M24SR_SUCCESS
                THEN { Callback(r, "on_enable_verification_requirement", r.ret, type, data, 0) }
                ELSE LET status == is_correct_crc_residue(r.rx, STATUSRESPONSE_NBBYTE)
                     IN  { Ret(Callback(r, "on_enable_verification_requirement", status, type, data, 0), status) })

\* the C_APDU that enable_verification_requirement fills in
enable_verification_requirement_command(password_type) ==
    [CLA |-> C_APDU_CLA_DEFAULT, INS |-> C_APDU_ENABLE,
     P1 |-> GETMSB(password_type), P2 |-> GETLSB(password_type)]

\* enable_verification_requirement with the parameter check of verify
enable_verification_requirement_upper_bound_check(c, password_type) ==
    IF password_type > I2C_PASSWORD
    THEN { Ret(Callback(c, "on_enable_verification_requirement", M24SR_IO_ERROR_PARAMETER, password_type, "null", 0),
               M24SR_IO_ERROR_PARAMETER) }
    ELSE
    LET command == enable_verification_requirement_command(password_type)
        b  == build_I_block_command(CMD_MASK_ENABLEVERIFREQ, command, c.did, c.bn)
        c1 == [c EXCEPT !.bn = b.block_number, !.buf = b.buffer]
    IN  Bind(io_send_i2c_command(c1, b.length, b.buffer),
             LAMBDA s :
                IF s.ret # M24SR_SUCCESS
                THEN { Callback(s, "on_enable_verification_requirement", s.ret, password_type, "null", 0) }
                ELSE LET s1 == [s EXCEPT !.lc = "ENABLE_VERIFICATION_REQUIREMENT", !.lcd.offset = password_type % 256]
                     IN  IF s1.mode = "SYNC"
                         THEN LET p == io_poll_i2c(s1)
                              IN  IF p.ret = M24SR_SUCCESS
                                  THEN receive_enable_verification_requirement(p)
                                  ELSE { Callback([p EXCEPT !.lc = NONE], "on_enable_verification_requirement",
                                                  p.ret, password_type, "null", 0) }
                         ELSE { Arm(Ret(s1, M24SR_SUCCESS)) })

enable_verification_requirement(c, password_type) ==
    IF password_type # READ_PASSWORD /\ password_type # WRITE_PASSWORD
    THEN { Ret(Callback(c, "on_enable_verification_requirement", M24SR_IO_ERROR_PARAMETER, password_type, "null", 0),
               M24SR_IO_ERROR_PARAMETER) }
    ELSE
    LET command == enable_verification_requirement_command(password_type)
        b  == build_I_block_command(CMD_MASK_ENABLEVERIFREQ, command, c.did, c.bn)
        c1 == [c EXCEPT !.bn = b.block_number, !.buf = b.buffer]
    IN  Bind(io_send_i2c_command(c1, b.length, b.buffer),
             LAMBDA s :
                IF s.ret # M24SR_SUCCESS
                THEN { Callback(s, "on_enable_verification_requirement", s.ret, password_type, "null", 0) }
                ELSE LET s1 == [s EXCEPT !.lc = "ENABLE_VERIFICATION_REQUIREMENT", !.lcd.offset = password_type % 256]
                     IN  IF s1.mode = "SYNC"
                         THEN LET p == io_poll_i2c(s1)
                              IN  IF p.ret = M24SR_SUCCESS
                                  THEN receive_enable_verification_requirement(p)
                                  ELSE { Callback([p EXCEPT !.lc = NONE], "on_enable_verification_requirement",
                                                  p.ret, password_type, "null", 0) }
                         ELSE { Arm(Ret(s1, M24SR_SUCCESS)) })

receive_disable_verification_requirement(c) ==
    LET type == c.lcd.offset
        data == "null"
    IN  Bind(io_receive_i2c_response(c, STATUSRESPONSE_NBBYTE, "rensponse"),
             LAMBDA r :
                IF r.ret # M24SR_SUCCESS
                THEN { Callback(r, "on_disable_verification_requirement", r.ret, type, data, 0) }
                ELSE LET status == is_correct_crc_residue(r.rx, STATUSRESPONSE_NBBYTE)
                     IN  { Ret(Callback(r, "on_disable_verification_requirement", status, type, data, 0), status) })

\* the C_APDU that disable_verification_requirement fills in
disable_verification_requirement_command(password_type) ==
    [CLA |-> C_APDU_CLA_DEFAULT, INS |-> C_APDU_DISABLE,
     P1 |-> GETMSB(password_type), P2 |-> GETLSB(password_type)]

disable_verification_requirement(c, password_type) ==
    IF password_type # READ_PASSWORD /\ password_type # WRITE_PASSWORD
    THEN { Ret(Callback(c, "on_disable_verification_requirement", M24SR_IO_ERROR_PARAMETER, password_type, "null", 0),
               M24SR_IO_ERROR_PARAMETER) }
    ELSE
    LET command == disable_verification_requirement_command(password_type)
        b  == build_I_block_command(CMD_MASK_DISABLEVERIFREQ, command, c.did, c.bn)
        c1 == [c EXCEPT !.bn = b.block_number, !.buf = b.buffer]
    IN  Bind(io_send_i2c_command(c1, b.length, b.buffer),
             LAMBDA s :
                IF s.ret # M24SR_SUCCESS
                THEN { Callback(s, "on_disable_verification_requirement", s.ret, password_type, "null", 0) }
                ELSE LET s1 == [s EXCEPT !.lc = "DISABLE_VERIFICATION_REQUIREMENT", !.lcd.offset = password_type % 256]
                     IN  IF s1.mode = "SYNC"
                         THEN LET p == io_poll_i2c(s1)
                              IN  IF p.ret = M24SR_SUCCESS
                                  THEN receive_disable_verification_requirement(p)
                                  ELSE { Callback([p EXCEPT !.lc = NONE], "on_disable_verification_requirement",
                                                  p.ret, password_type, "null", 0) }
                         ELSE { Arm(Ret(s1, M24SR_SUCCESS)) })

receive_enable_permanent_state(c) ==
    LET type == c.lcd.offset
        data == "null"
    IN  Bind(io_receive_i2c_response(c, STATUSRESPONSE_NBBYTE, "rensponse"),
             LAMBDA r :
                IF r.ret # M24SR_SUCCESS
                THEN { Callback(r, "on_enable_permanent_state", r.ret, type, data, 0) }
                ELSE LET status == is_correct_crc_residue(r.rx, STATUSRESPONSE_NBBYTE)
                     IN  { Ret(Callback(r, "on_enable_permanent_state", status, type, data, 0), status) })

\* the C_APDU that enable_permanent_state fills in
enable_permanent_state_command(password_type) ==
    [CLA |-> C_APDU_CLA_ST, INS |-> C_APDU_ENABLE,
     P1 |-> GETMSB(password_type), P2 |-> GETLSB(password_type)]

enable_permanent_state(c, password_type) ==
    IF password_type # READ_PASSWORD /\ password_type # WRITE_PASSWORD
    THEN { Ret(Callback(c, "on_enable_permanent_state", M24SR_IO_ERROR_PARAMETER, password_type, "null", 0),
               M24SR_IO_ERROR_PARAMETER) }
    ELSE
    LET command == enable_permanent_state_command(password_type)
        b  == build_I_block_command(CMD_MASK_ENABLEVERIFREQ, command, c.did, c.bn)
        c1 == [c EXCEPT !.bn = b.block_number, !.buf = b.buffer]
    IN  Bind(io_send_i2c_command(c1, b.length, b.buffer),
             LAMBDA s :
                IF s.ret # M24SR_SUCCESS
                THEN { Callback(s, "on_enable_permanent_state", s.ret, password_type, "null", 0) }
                ELSE LET s1 == [s EXCEPT !.lc = "ENABLE_PERMANET_STATE", !.lcd.offset = password_type % 256]
                     IN  IF s1.mode = "SYNC"
                         THEN LET p == io_poll_i2c(s1)
                              IN  IF p.ret = M24SR_SUCCESS
                                  THEN receive_enable_permanent_state(p)
                                  ELSE { Callback([p EXCEPT !.lc = NONE], "on_enable_permanent_state",
                                                  p.ret, password_type, "null", 0) }
                         ELSE { Arm(Ret(s1, M24SR_SUCCESS)) })

receive_disable_permanent_state(c) ==
    LET type == c.lcd.offset
        data == "null"
    IN  Bind(io_receive_i2c_response(c, STATUSRESPONSE_NBBYTE, "rensponse"),
             LAMBDA r :
                IF r.ret # M24SR_SUCCESS
                THEN { Callback(r, "on_disable_permanent_state", r.ret, type, data, 0) }
                ELSE LET status == is_correct_crc_residue(r.rx, STATUSRESPONSE_NBBYTE)
                     IN  { Ret(Callback(r, "on_disable_permanent_state", status, type, data, 0), status) })

\* the C_APDU that disable_permanent_state fills in
disable_permanent_state_command(password_type) ==
    [CLA |-> C_APDU_CLA_ST, INS |-> C_APDU_DISABLE,
     P1 |-> GETMSB(password_type), P2 |-> GETLSB(password_type)]

disable_permanent_state(c, password_type) ==
    IF password_type # READ_PASSWORD /\ password_type # WRITE_PASSWORD
    THEN { Ret(Callback(c, "on_disable_permanent_state", M24SR_IO_ERROR_PARAMETER, password_type, "null", 0),
               M24SR_IO_ERROR_PARAMETER) }
    ELSE
    LET command == disable_permanent_state_command(password_type)
        b  == build_I_block_command(CMD_MASK_DISABLEVERIFREQ, command, c.did, c.bn)
        c1 == [c EXCEPT !.bn = b.block_number, !.buf = b.buffer]
    IN  Bind(io_send_i2c_command(c1, b.length, b.buffer),
             LAMBDA s :
                IF s.ret # M24SR_SUCCESS
                THEN { Callback(s, "on_enable_permanent_state", s.ret, password_type, "null", 0) }
                ELSE LET s1 == [s EXCEPT !.lc = "DISABLE_PERMANET_STATE", !.lcd.offset = password_type % 256]
                     IN  IF s1.mode = "SYNC"
                         THEN LET p == io_poll_i2c(s1)
                              IN  IF p.ret = M24SR_SUCCESS
                                  THEN receive_disable_permanent_state(p)
                                  ELSE { Callback([p EXCEPT !.lc = NONE], "on_disable_permanent_state",
                                                  p.ret, password_type, "null", 0) }
                         ELSE { Arm(Ret(s1, M24SR_SUCCESS)) })

\* manage_event with a default branch that runs a receive
manage_event_receive_in_default(c) ==
    CASE c.lc = "SELECT_APPLICATION" -> receive_select_application(c)
      [] c.lc = "SELECT_CC_FILE" -> receive_select_cc_file(c)
      [] c.lc = "SELECT_NDEF_FILE" -> receive_select_ndef_file(c)
      [] c.lc = "SELECT_SYSTEM_FILE" -> receive_select_system_file(c)
      [] c.lc = "READ" -> receive_read_binary(c)
      [] c.lc = "UPDATE" -> receive_update_binary(c)
      [] c.lc = "VERIFY" -> receive_verify(c)
      [] c.lc = "CHANGE_REFERENCE_DATA" -> receive_change_reference_data(c)
      [] c.lc = "ENABLE_VERIFICATION_REQUIREMENT" -> receive_enable_verification_requirement(c)
      [] c.lc = "DISABLE_VERIFICATION_REQUIREMENT" -> receive_disable_verification_requirement(c)
      [] c.lc = "ENABLE_PERMANET_STATE" -> receive_enable_permanent_state(c)
      [] c.lc = "DISABLE_PERMANET_STATE" -> receive_disable_permanent_state(c)
      [] OTHER -> receive_deselect(c)

manage_event(c) ==
    CASE c.lc = "DESELECT" -> receive_deselect(c)
      [] c.lc = "SELECT_APPLICATION" -> receive_select_application(c)
      [] c.lc = "SELECT_CC_FILE" -> receive_select_cc_file(c)
      [] c.lc = "SELECT_NDEF_FILE" -> receive_select_ndef_file(c)
      [] c.lc = "SELECT_SYSTEM_FILE" -> receive_select_system_file(c)
      [] c.lc = "READ" -> receive_read_binary(c)
      [] c.lc = "UPDATE" -> receive_update_binary(c)
      [] c.lc = "VERIFY" -> receive_verify(c)
      [] c.lc = "CHANGE_REFERENCE_DATA" -> receive_change_reference_data(c)
      [] c.lc = "ENABLE_VERIFICATION_REQUIREMENT" -> receive_enable_verification_requirement(c)
      [] c.lc = "DISABLE_VERIFICATION_REQUIREMENT" -> receive_disable_verification_requirement(c)
      [] c.lc = "ENABLE_PERMANET_STATE" -> receive_enable_permanent_state(c)
      [] c.lc = "DISABLE_PERMANET_STATE" -> receive_disable_permanent_state(c)
      [] OTHER -> { Ret(c, M24SR_SUCCESS) }


(***************************************************************************)
(* The GPO commands.  connected is what _gpo_pin.is_connected() answers.   *)
(* manage_i2c_gpo installs the component's own callback object and starts  *)
(* its procedure with select_application, whose status it returns.         *)
(***************************************************************************)
manage_i2c_gpo(c, gpo_i2c_config, connected) ==
    IF ~connected
    THEN { Ret(c, M24SR_IO_PIN_NOT_CONNECTED) }
    ELSE IF gpo_i2c_config > NfcGpoState_t.STATE_CONTROL
         THEN { Ret(c, M24SR_IO_ERROR_PARAMETER) }
         ELSE select_application(c)

send_receive_i2c(c, length, buffer) ==
    Bind(io_send_i2c_command(c, length, buffer),
         LAMBDA s :
            IF s.ret # M24SR_SUCCESS
            THEN { s }
            ELSE LET p == io_poll_i2c(s)
                 IN  IF p.ret # M24SR_SUCCESS
                     THEN { p }
                     ELSE Bind(io_receive_i2c_response(p, STATUSRESPONSE_NBBYTE, "_buffer"),
                               LAMBDA r :
                                  IF r.ret # M24SR_SUCCESS
                                  THEN { r }
                                  ELSE { Ret(r, is_correct_crc_residue(r.rx,
                                                                       STATUSRESPONSE_NBBYTE)) }))

send_interrupt(c, connected) ==
    Bind(manage_i2c_gpo(c, NfcGpoState_t.INTERRUPT, connected),
         LAMBDA m :
            IF m.ret # M24SR_SUCCESS
            THEN { m }
            ELSE LET command == [CLA |-> C_APDU_CLA_ST, INS |-> C_APDU_INTERRUPT,
                                 P1 |-> 0, P2 |-> 30, LC |-> 0]
                     b  == build_I_block_command(CMD_MASK_SENDINTERRUPT, command, m.did, m.bn)
                     m1 == [m EXCEPT !.bn = b.block_number, !.buf = b.buffer]
                 IN  send_receive_i2c(m1, b.length, b.buffer))

state_control(c, gpo_reset, connected) ==
    Bind(manage_i2c_gpo(c, NfcGpoState_t.STATE_CONTROL, connected),
         LAMBDA m :
            IF m.ret = M24SR_SUCCESS
            THEN { m }
            ELSE LET reset   == IF gpo_reset THEN 1 ELSE 0
                     command == [CLA |-> C_APDU_CLA_ST, INS |-> C_APDU_INTERRUPT,
                                 P1 |-> 0, P2 |-> 31, LC |-> 1,
                                 data |-> [ptr |-> "reset", bytes |-> <<reset>>]]
                     b  == build_I_block_command(CMD_MASK_GPOSTATE, command, m.did, m.bn)
                     m1 == [m EXCEPT !.bn = b.block_number, !.buf = b.buffer]
                 IN  send_receive_i2c(m1, b.length, b.buffer))

(***************************************************************************)
(* The state machine: one action per operation of the driver.              *)
(***************************************************************************)
\* the context a call starts in; a command operation is handed the caller's
\* buffer filled with the canary pattern
Enter(m, sframes) ==
    [lc |-> _last_command, lcd |-> _last_command_data, bn |-> block_number,
     buf |-> _buffer, mem |-> m, mode |-> _communication_type, did |-> 0,
     io |-> <<>>, cbs |-> <<>>, rx |-> <<>>, ret |-> M24SR_SUCCESS,
     armed |-> FALSE, sframes |-> sframes, link |-> "chip"]

\* the same on a link that also delivers the other kinds of block
EnterOnLink(m, sframes, link) == [Enter(m, sframes) EXCEPT !.link = link]

FreshMem == [p \in {"rbuf"} |-> Canary]

LongMem == [p \in {"rbuf"} |-> LongCanary]

Commit(r, op) ==
    /\ block_number' = r.bn
    /\ _last_command' = r.lc
    /\ _last_command_data' = r.lcd
    /\ _buffer' = r.buf
    /\ mem' = r.mem
    /\ last' = [op |-> op, ret |-> r.ret]
    /\ UNCHANGED _communication_type

Issue(r, op, offset, length, data) ==
    /\ Commit(r, op)
    /\ issued' = [op |-> op, offset |-> offset, length |-> length, data |-> data]
    /\ hist' = [io |-> r.io, cbs |-> r.cbs]
    /\ done' = ~r.armed

\* the constructor sets _communication_type and _last_command, zero-fills
\* _buffer (no frame in it yet) and leaves _last_command_data uninitialised:
\* its offset is any of the values the caller uses
Init ==
    /\ block_number = 1
    /\ _last_command = NONE
    /\ _last_command_data \in [offset : Offsets, length : {0}, data : {"null"}]
    /\ _communication_type = "SYNC"
    /\ _buffer = <<>>
    /\ mem = FreshMem
    /\ issued = NoCommand
    /\ done = TRUE
    /\ hist = [io |-> <<>>, cbs |-> <<>>]
    /\ last = [op |-> "init", ret |-> M24SR_SUCCESS]

Deselect ==
    \E r \in deselect(Enter(FreshMem, 0)) :
                Issue(r, "deselect", 0, 0, "null")

SelectApplication ==
    \E r \in select_application(Enter(FreshMem, 0)) :
                Issue(r, "select_application", 0, 0, "null")

SelectCcFile ==
    \E r \in select_cc_file(Enter(FreshMem, 0)) :
                Issue(r, "select_cc_file", 0, 0, "null")

SelectSystemFile ==
    \E r \in select_system_file(Enter(FreshMem, 0)) :
                Issue(r, "select_system_file", 0, 0, "null")

SelectNdefFile ==
    \E id \in {1} :
        \E r \in select_ndef_file(Enter(FreshMem, 0), id) :
                Issue(r, "select_ndef_file", id, 0, "null")

ReadBinary ==
    \E offset \in Offsets, length \in Lengths :
        \E r \in read_binary(Enter(FreshMem, 0), offset, length, "rbuf") :
                Issue(r, "read_binary", offset, length, "rbuf")

StReadBinary ==
    \E offset \in Offsets, length \in Lengths :
        \E r \in st_read_binary(Enter(FreshMem, 0), offset, length, "rbuf") :
                Issue(r, "st_read_binary", offset, length, "rbuf")

UpdateBinary ==
    \E offset \in Offsets, length \in UpdateLengths :
        \E r \in update_binary(Enter(FreshMem, 0), offset, length, "wbuf") :
                Issue(r, "update_binary", offset, length, "wbuf")

Verify ==
    \E type \in PasswordTypes, password \in {"null", "pwd"} :
        \E r \in verify(Enter(FreshMem, 0), type, password) :
                Issue(r, "verify", type, 0, password)

ChangeReferenceData ==
    \E type \in PasswordTypes, password \in {"null", "pwd"} :
        \E r \in change_reference_data(Enter(FreshMem, 0), type, password) :
                Issue(r, "change_reference_data", type, 0, password)

EnableVerificationRequirement ==
    \E type \in PasswordTypes :
        \E r \in enable_verification_requirement(Enter(FreshMem, 0), type) :
                Issue(r, "enable_verification_requirement", type, 0, "null")

DisableVerificationRequirement ==
    \E type \in PasswordTypes :
        \E r \in disable_verification_requirement(Enter(FreshMem, 0), type) :
                Issue(r, "disable_verification_requirement", type, 0, "null")

EnablePermanentState ==
    \E type \in PasswordTypes :
        \E r \in enable_permanent_state(Enter(FreshMem, 0), type) :
                Issue(r, "enable_permanent_state", type, 0, "null")

DisablePermanentState ==
    \E type \in PasswordTypes :
        \E r \in disable_permanent_state(Enter(FreshMem, 0), type) :
                Issue(r, "disable_permanent_state", type, 0, "null")

\* the read and update operations called with a length above MAX_OPERATION_SIZE
ReadBinaryOversize ==
    \E length \in OversizeLengths :
        \E r \in read_binary(Enter(LongMem, 0), 0, length, "rbuf") :
                Issue(r, "read_binary", 0, length, "rbuf")

StReadBinaryOversize ==
    \E length \in OversizeLengths :
        \E r \in st_read_binary(Enter(LongMem, 0), 0, length, "rbuf") :
                Issue(r, "st_read_binary", 0, length, "rbuf")

UpdateBinaryOversize ==
    \E length \in OversizeLengths :
        \E r \in update_binary(Enter(LongMem, 0), 0, length, "wlong") :
                Issue(r, "update_binary", 0, length, "wlong")

\* the resume operation; the number of callbacks recorded for one command is
\* bounded by MaxCallbacks
ManageEvent ==
    /\ Len(hist.cbs) < MaxCallbacks
    /\ \E r \in manage_event(Enter(mem, SFrames(hist.io))) :
            /\ Commit(r, "manage_event")
            /\ issued' = issued
            /\ hist' = [io |-> hist.io \o r.io, cbs |-> hist.cbs \o r.cbs]
            /\ done' = IF _last_command = NONE THEN done ELSE ~r.armed

\* the caller selects synchronous or asynchronous operation while no command
\* is in flight
SetCommunicationType ==
    /\ done
    /\ \E type \in {"SYNC", "ASYNC"} :
        /\ type # _communication_type
        /\ _communication_type' = type
    /\ issued' = NoCommand
    /\ hist' = [io |-> <<>>, cbs |-> <<>>]
    /\ mem' = FreshMem
    /\ last' = [op |-> "set_communication_type", ret |-> M24SR_SUCCESS]
    /\ UNCHANGED <<block_number, _last_command, _last_command_data, _buffer, done>>

Next ==
    \/ Deselect
    \/ SelectApplication
    \/ SelectCcFile
    \/ SelectSystemFile
    \/ SelectNdefFile
    \/ ReadBinary
    \/ StReadBinary
    \/ UpdateBinary
    \/ Verify
    \/ ChangeReferenceData
    \/ EnableVerificationRequirement
    \/ DisableVerificationRequirement
    \/ EnablePermanentState
    \/ DisablePermanentState
    \/ ManageEvent
    \/ SetCommunicationType

Spec == Init /\ [][Next]_vars

(***************************************************************************)
(* Sessions in which the caller keeps to one family of commands.           *)
(***************************************************************************)
NextSelect ==
    \/ Deselect
    \/ SelectApplication
    \/ SelectCcFile
    \/ SelectSystemFile
    \/ SelectNdefFile
    \/ ManageEvent
    \/ SetCommunicationType

SpecSelect == Init /\ [][NextSelect]_vars

NextRead ==
    \/ ReadBinary
    \/ StReadBinary
    \/ ManageEvent
    \/ SetCommunicationType

SpecRead == Init /\ [][NextRead]_vars

NextUpdate ==
    \/ UpdateBinary
    \/ ManageEvent
    \/ SetCommunicationType

SpecUpdate == Init /\ [][NextUpdate]_vars

\* the password commands; requests left pending are not resumed
NextPassword ==
    \/ Verify
    \/ ChangeReferenceData
    \/ EnableVerificationRequirement
    \/ DisableVerificationRequirement
    \/ EnablePermanentState
    \/ DisablePermanentState
    \/ SetCommunicationType

SpecPassword == Init /\ [][NextPassword]_vars

\* requests longer than one operation can carry, in synchronous mode
NextOversize ==
    \/ ReadBinaryOversize
    \/ StReadBinaryOversize
    \/ UpdateBinaryOversize

SpecOversize == Init /\ [][NextOversize]_vars

\* three of the password commands with one valid password kind, and their
\* resumption
VerifyReadPassword ==
    \E r \in verify(Enter(FreshMem, 0), READ_PASSWORD, "pwd") :
                Issue(r, "verify", READ_PASSWORD, 0, "pwd")

ChangeReadPassword ==
    \E password \in {"null", "pwd"} :
        \E r \in change_reference_data(Enter(FreshMem, 0), READ_PASSWORD, password) :
                Issue(r, "change_reference_data", READ_PASSWORD, 0, password)

EnableReadVerification ==
    \E r \in enable_verification_requirement(Enter(FreshMem, 0), READ_PASSWORD) :
                Issue(r, "enable_verification_requirement", READ_PASSWORD, 0, "null")

NextResume ==
    \/ VerifyReadPassword
    \/ ChangeReadPassword
    \/ EnableReadVerification
    \/ ManageEvent
    \/ SetCommunicationType

SpecResume == Init /\ [][NextResume]_vars

\* update_binary and its resumption on a link that delivers every kind of
\* block
UpdateBinaryOnAnyLink ==
    \E offset \in {258}, length \in {MaxLen} :
        \E r \in update_binary(EnterOnLink(FreshMem, 0, "any"), offset, length, "wbuf") :
                Issue(r, "update_binary", offset, length, "wbuf")

ManageEventOnAnyLink ==
    /\ Len(hist.cbs) < MaxCallbacks
    /\ \E r \in manage_event(EnterOnLink(mem, SFrames(hist.io), "any")) :
            /\ Commit(r, "manage_event")
            /\ issued' = issued
            /\ hist' = [io |-> hist.io \o r.io, cbs |-> hist.cbs \o r.cbs]
            /\ done' = IF _last_command = NONE THEN done ELSE ~r.armed

NextAnyLink ==
    \/ UpdateBinaryOnAnyLink
    \/ ManageEventOnAnyLink
    \/ SetCommunicationType

SpecAnyLink == Init /\ [][NextAnyLink]_vars

(***************************************************************************)
(* The frame codec on its own: build_I_block_command applied to the C_APDU *)
(* and mask of every command operation, compute_crc applied to byte spans, *)
(* and send_fwt_extension.  hist.io keeps the latest encode (command kind,  *)
(* header byte, whether it was the first since start-up), after an Encode  *)
(* step also the one before it, in front of the transport events of the    *)
(* last send_fwt_extension.                                                *)
(***************************************************************************)
Descriptor(kind, mask, command) == [kind |-> kind, mask |-> mask, command |-> command]

CommandDescriptors ==
    { Descriptor("select_application", CMD_MASK_SELECTAPPLICATION, select_application_command),
      Descriptor("select_cc_file", CMD_MASK_SELECTCCFILE, select_cc_file_command),
      Descriptor("select_system_file", CMD_MASK_SELECTCCFILE, select_system_file_command),
      Descriptor("select_ndef_file", CMD_MASK_SELECTNDEFFILE, select_ndef_file_command(1)),
      Descriptor("st_read_binary", CMD_MASK_READBINARY,
                 st_read_binary_command(258, MAX_OPERATION_SIZE)),
      Descriptor("update_binary", CMD_MASK_UPDATEBINARY,
                 update_binary_command(FreshMem, 0, 0, "wbuf")),
      Descriptor("update_binary", CMD_MASK_UPDATEBINARY,
                 update_binary_command(FreshMem, 258, MaxLen, "wbuf")),
      Descriptor("change_reference_data", CMD_MASK_CHANGEREFDATA,
                 change_reference_data_command(FreshMem, READ_PASSWORD, "pwd")),
      Descriptor("change_reference_data", CMD_MASK_CHANGEREFDATA,
                 change_reference_data_command(FreshMem, I2C_PASSWORD, "null")) }
    \cup { Descriptor("read_binary", CMD_MASK_READBINARY, read_binary_command(offset, length))
           : offset \in Offsets, length \in {0, MaxLen} }
    \cup { Descriptor("verify", verify_mask(password),
                      verify_command(FreshMem, type, password))
           : type \in {READ_PASSWORD, I2C_PASSWORD}, password \in {"null", "pwd"} }
    \cup { Descriptor("enable_verification_requirement", CMD_MASK_ENABLEVERIFREQ,
                      enable_verification_requirement_command(type))
           : type \in {READ_PASSWORD, WRITE_PASSWORD} }
    \cup { Descriptor("disable_verification_requirement", CMD_MASK_DISABLEVERIFREQ,
                      disable_verification_requirement_command(type))
           : type \in {READ_PASSWORD} }
    \cup { Descriptor("enable_permanent_state", CMD_MASK_ENABLEVERIFREQ,
                      enable_permanent_state_command(type))
           : type \in {WRITE_PASSWORD} }
    \cup { Descriptor("disable_permanent_state", CMD_MASK_DISABLEVERIFREQ,
                      disable_permanent_state_command(type))
           : type \in {READ_PASSWORD} }

IsEncode(e) == e.t = "encode"

Encodes(io) == SelectSeq(io, IsEncode)

Latest(s) == IF Len(s) > 1 THEN SubSeq(s, Len(s), Len(s)) ELSE s

Encode ==
    \E d \in CommandDescriptors :
        LET b == build_I_block_command(d.mask, d.command, 0, block_number)
        IN  /\ block_number' = b.block_number
            /\ _buffer' = b.buffer
            /\ issued' = [op |-> "build_I_block_command", offset |-> 0,
                          length |-> b.length, data |-> "null",
                          kind |-> d.kind, mask |-> d.mask, command |-> d.command]
            /\ hist' = [io |-> Append(Latest(Encodes(hist.io)),
                                      [t |-> "encode", kind |-> d.kind,
                                       pcb |-> b.buffer[1],
                                       first |-> Encodes(hist.io) = <<>>]),
                        cbs |-> <<>>]
            /\ last' = [op |-> "build_I_block_command", ret |-> M24SR_SUCCESS]
            /\ UNCHANGED <<_last_command, _last_command_data, _communication_type,
                           mem, done>>



(***************************************************************************)
(* Synchronous commands step by step.  A synchronous command blocks in the *)
(* loop of io_poll_i2c; while it is there, done is FALSE and last holds    *)
(* the position: op = "io_poll_i2c", ret = the local status of the loop.   *)
(* A step of the loop whose write is not acknowledged changes nothing.     *)
(***************************************************************************)
\* the state of the driver and of the exchange when the call that is running
\* has reached context r: blocked in io_poll_i2c (status = 1 on entering the
\* loop) or returned to the caller
Blocked(r, is, h) ==
    /\ Commit(Ret(r, 1), "io_poll_i2c")
    /\ issued' = is
    /\ hist' = [io |-> h.io \o r.io, cbs |-> h.cbs \o r.cbs]
    /\ done' = FALSE

Returned(r) ==
    /\ Commit(r, issued.op)
    /\ issued' = issued
    /\ hist' = [io |-> hist.io \o r.io, cbs |-> hist.cbs \o r.cbs]
    /\ done' = TRUE

\* select_application up to its call of io_poll_i2c
CallSelectApplication ==
    /\ done
    /\ _communication_type = "SYNC"
    /\ LET c  == Enter(FreshMem, 0)
           b  == build_I_block_command(CMD_MASK_SELECTAPPLICATION, select_application_command,
                                       c.did, c.bn)
           c1 == [c EXCEPT !.bn = b.block_number, !.buf = b.buffer]
       IN  \E s \in io_send_i2c_command(c1, b.length, b.buffer) :
                IF s.ret # M24SR_SUCCESS
                THEN Issue(Callback(s, "on_selected_application", s.ret, 0, "null", 0),
                           "select_application", 0, 0, "null")
                ELSE Blocked([s EXCEPT !.lc = "SELECT_APPLICATION"],
                             [op |-> "select_application", offset |-> 0, length |-> 0,
                              data |-> "null"],
                             [io |-> <<>>, cbs |-> <<>>])

\* update_binary up to its call of io_poll_i2c
CallUpdateBinary ==
    /\ done
    /\ _communication_type = "SYNC"
    /\ \E len \in UpdateLengths :
        LET c       == Enter(FreshMem, 0)
            offset  == 0
            data    == "wbuf"
            length  == IF len > MAX_OPERATION_SIZE THEN MAX_OPERATION_SIZE ELSE len
            command == update_binary_command(c.mem, offset, length, data)
            b  == build_I_block_command(CMD_MASK_UPDATEBINARY, command, c.did, c.bn)
            c1 == [c EXCEPT !.bn = b.block_number, !.buf = b.buffer]
        IN  \E s \in io_send_i2c_command(c1, b.length, b.buffer) :
                IF s.ret # M24SR_SUCCESS
                THEN Issue(Callback(s, "on_updated_binary", s.ret, offset, data, length),
                           "update_binary", offset, len, data)
                ELSE Blocked([s EXCEPT !.lc = "UPDATE", !.lcd.data = data,
                                       !.lcd.length = length, !.lcd.offset = offset],
                             [op |-> "update_binary", offset |-> offset, length |-> len,
                              data |-> data],
                             [io |-> <<>>, cbs |-> <<>>])

\* one turn of the loop of io_poll_i2c in select_application and, when the
\* write is acknowledged, the rest of select_application
PollSelectApplication ==
    /\ ~done
    /\ last.op = "io_poll_i2c"
    /\ _last_command = "SELECT_APPLICATION"
    /\ \E status \in {0, 1} :
        IF status # 0
        THEN UNCHANGED vars
        ELSE LET p == io_poll_i2c(Enter(mem, 0))
             IN  IF p.ret = M24SR_SUCCESS
                 THEN \E r \in receive_select_application(p) : Returned(r)
                 ELSE Returned(Callback([p EXCEPT !.lc = NONE],
                                      "on_selected_application", p.ret, 0, "null", 0))

\* one turn of the loop of io_poll_i2c in update_binary or send_fwt_extension
\* and, when the write is acknowledged, receive_update_binary up to its
\* return or to the next call of io_poll_i2c.  Every acknowledgement sent
\* before is a call of receive_update_binary that waits for the status and
\* reports it once more if it is not M24SR_SUCCESS.
PollUpdateBinary ==
    /\ ~done
    /\ last.op = "io_poll_i2c"
    /\ _last_command = "UPDATE"
    /\ \E status \in {0, 1} :
        IF status # 0
        THEN UNCHANGED vars
        ELSE LET p      == io_poll_i2c(Enter(mem, SFrames(hist.io)))
                 length == p.lcd.length
                 data   == p.lcd.data
                 offset == p.lcd.offset
                 depth  == Acks(hist.io)
                 Unwind(r) ==
                    IF r.ret # M24SR_SUCCESS
                    THEN [r EXCEPT !.cbs = @ \o [i \in 1..depth |->
                                [cb |-> "on_updated_binary", status |-> r.ret,
                                 offset |-> offset, data |-> data, length |-> length]]]
                    ELSE r
             IN  IF p.ret # M24SR_SUCCESS
                 THEN Returned(Unwind(Callback([p EXCEPT !.lc = NONE], "on_updated_binary",
                                             p.ret, offset, data, length)))
                 ELSE \E r \in io_receive_i2c_response([p EXCEPT !.lc = NONE],
                                                       STATUSRESPONSE_NBBYTE, "response") :
                        IF r.ret # M24SR_SUCCESS
                        THEN Returned(Unwind(Callback(r, "on_updated_binary", r.ret,
                                                    offset, data, length)))
                        ELSE IF is_S_block(r.rx) = M24SR_SUCCESS
                        THEN LET crc    == is_correct_crc_residue(r.rx, WATINGTIMEEXTRESPONSE_NBBYTE)
                                 crc16  == compute_crc(<<242, r.rx[OFFSET_PCB + 2]>>, 2)
                                 buffer == <<242, r.rx[OFFSET_PCB + 2], GETLSB(crc16), GETMSB(crc16)>>
                             IN  IF crc # M24SR_IO_ERROR_CRC
                                 THEN \E s \in io_send_i2c_command(r, Len(buffer), buffer) :
                                        IF s.ret # M24SR_SUCCESS
                                        THEN Returned(Unwind(Callback(s, "on_updated_binary", s.ret,
                                                                    offset, data, length)))
                                        ELSE Blocked([s EXCEPT !.lc = "UPDATE"], issued, hist)
                                 ELSE Returned(Unwind(Ret(r, crc)))
                        ELSE LET st == is_correct_crc_residue(r.rx, STATUSRESPONSE_NBBYTE)
                             IN  Returned(Unwind(Ret(Callback(r, "on_updated_binary", st,
                                                            offset, data, length), st)))

\* the transport eventually acknowledges the write of io_poll_i2c, and the
\* chip sends at most MaxWtx wait-time requests
SpecBlocking ==
    /\ Init
    /\ [][\/ CallSelectApplication
          \/ CallUpdateBinary
          \/ PollSelectApplication
          \/ PollUpdateBinary]_vars
    /\ WF_vars(PollSelectApplication)
    /\ WF_vars(PollUpdateBinary)


\* the GPO commands, in synchronous mode; the argument is recorded as the
\* offset of the issued command
SendInterrupt ==
    \E connected \in BOOLEAN :
        \E r \in send_interrupt(Enter(FreshMem, 0), connected) :
                Issue(r, "send_interrupt", 0, 0, "null")

StateControl ==
    \E connected \in BOOLEAN, gpo_reset \in BOOLEAN :
        \E r \in state_control(Enter(FreshMem, 0), gpo_reset, connected) :
                Issue(r, "state_control", IF gpo_reset THEN 1 ELSE 0, 0, "null")

SpecGpo == Init /\ [][SendInterrupt \/ StateControl]_vars

\* Several M24srDriver objects in one program.  build_I_block_command is a
\* function of the file, not of the object, and block_number is its local
\* static: there is one block_number whatever the number of objects.
\* hist.io keeps the latest encode of every object; _buffer is the buffer of
\* the object that encoded last.
Instances == {1, 2}

EncodeOnInstance ==
    \E inst \in Instances :
        \E d \in { x \in CommandDescriptors : x.kind \in {"select_application", "read_binary"} } :
            LET b == build_I_block_command(d.mask, d.command, 0, block_number)
            IN  /\ block_number' = b.block_number
                /\ _buffer' = b.buffer
                /\ issued' = [op |-> "build_I_block_command", offset |-> 0,
                              length |-> b.length, data |-> "null",
                              kind |-> d.kind, mask |-> d.mask, command |-> d.command,
                              inst |-> inst]
                /\ hist' = [io |-> Append(SelectSeq(hist.io, LAMBDA e : e.inst # inst),
                                          [t |-> "encode", kind |-> d.kind,
                                           pcb |-> b.buffer[1], inst |-> inst]),
                            cbs |-> <<>>]
                /\ last' = [op |-> "build_I_block_command", ret |-> M24SR_SUCCESS]
                /\ UNCHANGED <<_last_command, _last_command_data, _communication_type,
                               mem, done>>

SpecInstances == Init /\ [][EncodeOnInstance]_vars

\* the byte spans compute_crc is applied to
CrcSpans == UNION { [1..n -> {0, 99, 255}] : n \in 1..MaxLen }

\* the span is recorded in issued.data, its CRC in last.ret
ComputeCrc ==
    \E b \in CrcSpans :
        /\ issued' = [op |-> "compute_crc", offset |-> 0, length |-> Len(b),
                      data |-> b]
        /\ last' = [op |-> "compute_crc", ret |-> compute_crc(b, Len(b))]
        /\ hist' = [io |-> Latest(Encodes(hist.io)), cbs |-> <<>>]
        /\ UNCHANGED <<block_number, _last_command, _last_command_data,
                       _communication_type, _buffer, mem, done>>

\* the acknowledgement of the last wait-time extension the chip asks for
SendFwtExtension ==
    \E fwt_byte \in {0, 11} :
        \E r \in send_fwt_extension(Enter(mem, MaxWtx), fwt_byte) :
            /\ Commit(r, "send_fwt_extension")
            /\ issued' = [op |-> "send_fwt_extension", offset |-> fwt_byte,
                          length |-> 0, data |-> "null"]
            /\ hist' = [io |-> Latest(Encodes(hist.io)) \o r.io, cbs |-> r.cbs]
            /\ done' = ~r.armed

NextCodec ==
    \/ Encode
    \/ ComputeCrc
    \/ SendFwtExtension

SpecCodec == Init /\ [][NextCodec]_vars

(***************************************************************************)
(* A session as the chip sees it, in synchronous mode: hist.io keeps, in   *)
(* front of the transport events of the command issued last, the latest    *)
(* information block that an earlier command transmitted successfully.     *)
(***************************************************************************)
IsDelivered(e) == e.t = "send" /\ e.ok /\ e.frame[1] \in {2, 3}

Delivered(io) == Latest(SelectSeq(io, IsDelivered))

IssueInSession(r, op, offset, length, data) ==
    /\ Commit(r, op)
    /\ issued' = [op |-> op, offset |-> offset, length |-> length, data |-> data]
    /\ hist' = [io |-> Delivered(hist.io) \o r.io, cbs |-> r.cbs]
    /\ done' = ~r.armed

SelectApplicationInSession ==
    \E r \in select_application(Enter(FreshMem, 0)) :
                IssueInSession(r, "select_application", 0, 0, "null")

ReadBinaryInSession ==
    \E length \in {0, MaxLen} :
        \E r \in read_binary(Enter(FreshMem, 0), 0, length, "rbuf") :
                IssueInSession(r, "read_binary", 0, length, "rbuf")

UpdateBinaryInSession ==
    \E r \in update_binary(Enter(FreshMem, 0), 0, MaxLen, "wbuf") :
                IssueInSession(r, "update_binary", 0, MaxLen, "wbuf")

NextSession ==
    \/ SelectApplicationInSession
    \/ ReadBinaryInSession
    \/ UpdateBinaryInSession

SpecSession == Init /\ [][NextSession]_vars

(***************************************************************************)
(* The response validator on its own: every frame of CrcFrames is handed   *)
(* to is_correct_crc_residue with every window length from 4 up to the     *)
(* frame's length.  The frame is left in _buffer, the length in issued,    *)
(* the result in last.                                                     *)
(***************************************************************************)
CrcPayloads == UNION { [1..n -> {1, 144}] : n \in 0..MaxLen }

CrcStatusWords == {NFC_COMMAND_SUCCESS, 27266, 0}

CrcValidFrames ==
    { ReadFrame(d, sw) : d \in CrcPayloads, sw \in CrcStatusWords }

CrcFrames ==
    CrcValidFrames
    \cup { Corrupt(f) : f \in CrcValidFrames }
    \cup { StatusFrame(2, sw) \o t :
             sw \in CrcStatusWords, t \in CrcPayloads \ {<<>>} }
    \cup { WtxFrame(11) }

Validate ==
    \E f \in CrcFrames : \E length \in 4..Len(f) :
        /\ _buffer' = f
        /\ issued' = [op |-> "is_correct_crc_residue", offset |-> 0,
                      length |-> length, data |-> "null"]
        /\ last' = [op |-> "is_correct_crc_residue",
                    ret |-> is_correct_crc_residue(f, length)]
        /\ UNCHANGED <<block_number, _last_command, _last_command_data,
                       _communication_type, mem, done, hist>>

SpecCrc == Init /\ [][Validate]_vars

(***************************************************************************)
(* Vocabulary of the properties.                                           *)
(***************************************************************************)
CommandOps ==
    {"deselect", "select_application", "select_cc_file", "select_system_file",
     "select_ndef_file", "read_binary", "st_read_binary", "update_binary", "verify",
     "change_reference_data", "enable_verification_requirement",
     "disable_verification_requirement", "enable_permanent_state",
     "disable_permanent_state"}

IsRecv(e) == e.t = "recv"

Recvs(io) == SelectSeq(io, IsRecv)

AllOk(io) == \A i \in 1..Len(io) : io[i].ok

\* the issued command has finished: the call that ran last left nothing pending
Finished == issued.op \in CommandOps /\ done

\* the request frame of the issued command could not be sent
SendFailed(io) == Len(io) >= 1 /\ io[1].t = "send" /\ ~io[1].ok

(***************************************************************************)
(* C1: no issued command receives more than one completion callback: the   *)
(* number of callbacks delivered between issuing a command and issuing the *)
(* next one is at most 1, in both modes and for every transport outcome    *)
(* and chip response.                                                      *)
(***************************************************************************)
C1_AtMostOneCallback == Len(hist.cbs) <= 1

(***************************************************************************)
(* C2: every issued command that has finished has delivered at least one   *)
(* completion callback, whatever its outcome.                              *)
(***************************************************************************)
C2_FinishedCommandHasCallback == Finished => Len(hist.cbs) >= 1

(***************************************************************************)
(* C3: _last_command is NONE at construction and again after every         *)
(* completed operation: once a command's response has been received and    *)
(* its completion callback delivered, _last_command = NONE.                *)
(***************************************************************************)
C3_PendingKindResetAfterCompletion ==
    /\ (last.op = "init" => _last_command = NONE)
    /\ (Finished /\ Len(hist.cbs) >= 1 /\ Len(Recvs(hist.io)) >= 1 /\ AllOk(hist.io))
            => _last_command = NONE

(***************************************************************************)
(* C4: in asynchronous mode a command operation issued while another       *)
(* command is pending is either rejected or leaves the pending command's   *)
(* recorded kind and parameters unchanged.                                 *)
(***************************************************************************)
C4_SecondCommandKeepsPending ==
    [][(/\ _communication_type = "ASYNC"
        /\ ~done
        /\ _last_command # NONE
        /\ last'.op \in CommandOps)
       => \/ last'.ret # M24SR_SUCCESS
          \/ /\ _last_command' = _last_command
             /\ _last_command_data' = _last_command_data]_vars

(***************************************************************************)
(* C5: when the send of a command's request frame fails, the command       *)
(* operation aborts at once: no poll and no receive follow, the transport  *)
(* error is returned, and _last_command is NONE when it was NONE before.   *)
(***************************************************************************)
C5_SendFailureAborts ==
    [][(/\ last'.op \in CommandOps
        /\ SendFailed(hist'.io)
        /\ _last_command = NONE)
       => /\ Len(hist'.io) = 1
          /\ last'.ret = M24SR_IO_ERROR_I2CTIMEOUT
          /\ _last_command' = NONE]_vars

(***************************************************************************)
(* C6: when the chip answers update_binary with k wait-time-extension      *)
(* frames and then a final response, the driver sends exactly k            *)
(* acknowledgements, performs exactly k+1 receives, and delivers the       *)
(* validated status of the final response as the return value and through  *)
(* a single on_updated_binary callback.                                    *)
(***************************************************************************)
C6_WtxThenFinal ==
    LET R == Recvs(hist.io)
    IN  /\ issued.op = "update_binary"
        /\ done
        /\ AllOk(hist.io)
        /\ Len(R) >= 1
        /\ \A i \in 1..(Len(R) - 1) : R[i].frame = WtxFrame(11)
        /\ is_S_block(R[Len(R)].frame) # M24SR_SUCCESS

C6_UpdateAfterWtx ==
    C6_WtxThenFinal =>
        LET R == Recvs(hist.io)
            final == is_correct_crc_residue(R[Len(R)].frame, STATUSRESPONSE_NBBYTE)
        IN  /\ Acks(hist.io) = Len(R) - 1
            /\ Len(hist.cbs) = 1
            /\ hist.cbs[1].cb = "on_updated_binary"
            /\ hist.cbs[1].status = final
            /\ last.ret = final

(***************************************************************************)
(* C7: manage_event called while _last_command is NONE does nothing: no    *)
(* send, poll or receive, no callback, _last_command, _last_command_data   *)
(* and the sequence bit unchanged, and it returns success.                 *)
(***************************************************************************)
C7_ManageEventIdleIsNoOp ==
    [][(last'.op = "manage_event" /\ _last_command = NONE)
       => /\ hist' = hist
          /\ _last_command' = NONE
          /\ _last_command_data' = _last_command_data
          /\ block_number' = block_number
          /\ mem' = mem
          /\ last'.ret = M24SR_SUCCESS]_vars

\* manage_event has run on a driver with nothing pending and nothing issued
C7_Witness ==
    /\ last.op = "manage_event"
    /\ issued = NoCommand
    /\ _last_command = NONE
    /\ hist.io = <<>>
    /\ hist.cbs = <<>>

(***************************************************************************)
(* C8: read_binary(offset, length, buffer) answered by a frame of          *)
(* length+5 bytes (header, length data bytes, status 0x9000, correct CRC)  *)
(* yields success, the caller's buffer holds exactly the data bytes in     *)
(* order, and on_read_byte is invoked once with success and the original   *)
(* offset, buffer and length.                                              *)
(***************************************************************************)
C8_GoodReadResponse ==
    LET R == Recvs(hist.io)
    IN  /\ issued.op = "read_binary"
        /\ done
        /\ AllOk(hist.io)
        /\ Len(R) = 1
        /\ \E d \in DataPatterns(issued.length) :
               R[1].frame = ReadFrame(d, NFC_COMMAND_SUCCESS)

C8_ReadBinaryDeliversData ==
    C8_GoodReadResponse =>
        LET f == Recvs(hist.io)[1].frame
            n == issued.length
        IN  /\ last.ret = M24SR_SUCCESS
            /\ SubSeq(mem["rbuf"], 1, n) = SubSeq(f, 2, n + 1)
            /\ SubSeq(mem["rbuf"], n + 1, MaxLen) = SubSeq(Canary, n + 1, MaxLen)
            /\ hist.cbs = << [cb |-> "on_read_byte", status |-> M24SR_SUCCESS,
                              offset |-> issued.offset, data |-> issued.data,
                              length |-> n] >>

\* a read of MaxLen bytes has completed on a good response
C8_Witness ==
    /\ C8_GoodReadResponse
    /\ issued.length = MaxLen
    /\ issued.offset = 258
    /\ mem["rbuf"] = [i \in 1..MaxLen |-> 16 + i]
    /\ Len(hist.cbs) = 1

(***************************************************************************)
(* C9: a read_binary response whose residue over the full received span of *)
(* length+5 bytes is not zero yields the CRC error and leaves the caller's  *)
(* buffer unmodified, whatever its bytes are, including a response whose   *)
(* first five bytes form a frame with zero residue.                        *)
(***************************************************************************)
C9_CorruptedReadResponse ==
    LET R == Recvs(hist.io)
    IN  /\ issued.op = "read_binary"
        /\ done
        /\ AllOk(hist.io)
        /\ Len(R) = 1
        /\ Len(R[1].frame) = issued.length + 5
        /\ compute_crc(R[1].frame, issued.length + 5) # 0

C9_CorruptedReadIsCrcError ==
    C9_CorruptedReadResponse =>
        /\ Len(hist.cbs) = 1
        /\ hist.cbs[1].status = M24SR_IO_ERROR_CRC
        /\ last.ret = M24SR_IO_ERROR_CRC
        /\ mem["rbuf"] = Canary

(***************************************************************************)
(* C10: is_correct_crc_residue(data, length) returns the status at         *)
(* data[length-4], data[length-3] when the residue over the full span is   *)
(* zero, otherwise the status at data[1], data[2] when the residue over    *)
(* the first 5 bytes is zero, otherwise M24SR_IO_ERROR_CRC; 0x9000 is      *)
(* mapped to M24SR_SUCCESS, every other status is passed through, and      *)
(* M24SR_IO_ERROR_CRC is returned exactly when both residues are non-zero. *)
(***************************************************************************)
C10_ValidatorContract ==
    last.op = "is_correct_crc_residue" =>
        LET data == _buffer
            length == issued.length
            full == compute_crc(data, length) = 0
            five == compute_crc(data, 5) = 0
            expected ==
                IF full THEN data[length - 4 + 1] * 256 + data[length - 3 + 1]
                ELSE IF five THEN data[1 + 1] * 256 + data[2 + 1]
                ELSE M24SR_IO_ERROR_CRC
        IN  /\ last.ret = IF expected = 36864 THEN M24SR_SUCCESS ELSE expected
            /\ (last.ret = M24SR_IO_ERROR_CRC) <=> (~full /\ ~five)

\* the validator has fallen back to the five-byte window and found a status there
C10_Witness ==
    /\ last.op = "is_correct_crc_residue"
    /\ issued.length > 5
    /\ compute_crc(_buffer, issued.length) # 0
    /\ compute_crc(_buffer, 5) = 0
    /\ last.ret = 27266

(***************************************************************************)
(* Vocabulary of the command kinds.                                        *)
(***************************************************************************)
PasswordOps ==
    {"verify", "change_reference_data", "enable_verification_requirement",
     "disable_verification_requirement", "enable_permanent_state",
     "disable_permanent_state"}

\* the callback that belongs to each command operation
CallbackOf ==
    [op \in CommandOps |->
        CASE op = "deselect" -> "on_deselect"
          [] op = "select_application" -> "on_selected_application"
          [] op = "select_cc_file" -> "on_selected_cc_file"
          [] op = "select_system_file" -> "on_selected_system_file"
          [] op = "select_ndef_file" -> "on_selected_ndef_file"
          [] op = "read_binary" -> "on_read_byte"
          [] op = "st_read_binary" -> "on_read_byte"
          [] op = "update_binary" -> "on_updated_binary"
          [] op = "verify" -> "on_verified"
          [] op = "change_reference_data" -> "on_change_reference_data"
          [] op = "enable_verification_requirement" -> "on_enable_verification_requirement"
          [] op = "disable_verification_requirement" -> "on_disable_verification_requirement"
          [] op = "enable_permanent_state" -> "on_enable_permanent_state"
          [] op = "disable_permanent_state" -> "on_disable_permanent_state"]

\* the password kind violates the precondition of the command
InvalidPasswordType(op, type) ==
    IF op \in {"verify", "change_reference_data"}
    THEN type > I2C_PASSWORD
    ELSE type # READ_PASSWORD /\ type # WRITE_PASSWORD

(***************************************************************************)
(* C11: a password command whose password kind violates its precondition   *)
(* (above I2C_PASSWORD for verify and change_reference_data, other than    *)
(* READ_PASSWORD or WRITE_PASSWORD for the four enable/disable commands)   *)
(* is rejected before anything is transmitted: no frame is encoded (the    *)
(* sequence bit and _buffer are unchanged), there is no send, poll or      *)
(* receive, _last_command and _last_command_data are unchanged, and        *)
(* M24SR_IO_ERROR_PARAMETER is returned and passed to exactly one          *)
(* invocation of that command's callback.                                  *)
(***************************************************************************)
C11_InvalidParameterRejected ==
    [][(/\ last'.op \in PasswordOps
        /\ issued'.op = last'.op
        /\ InvalidPasswordType(issued'.op, issued'.offset))
       => /\ hist'.io = <<>>
          /\ block_number' = block_number
          /\ _buffer' = _buffer
          /\ _last_command' = _last_command
          /\ _last_command_data' = _last_command_data
          /\ last'.ret = M24SR_IO_ERROR_PARAMETER
          /\ Len(hist'.cbs) = 1
          /\ hist'.cbs[1].cb = CallbackOf[issued'.op]
          /\ hist'.cbs[1].status = M24SR_IO_ERROR_PARAMETER]_vars

\* disable_permanent_state(I2C_PASSWORD) has been rejected while another
\* request was pending
C11_Witness ==
    /\ last.op = "disable_permanent_state"
    /\ issued.offset = I2C_PASSWORD
    /\ last.ret = M24SR_IO_ERROR_PARAMETER
    /\ _last_command \notin {NONE, "DISABLE_PERMANET_STATE"}
    /\ hist.io = <<>>
    /\ Len(hist.cbs) = 1

(***************************************************************************)
(* C12: a read or update request whose length exceeds the 246-byte cap     *)
(* fails with a length error and transmits nothing: for a length in        *)
(* 247..255, read_binary, st_read_binary and update_binary hand no frame   *)
(* to the transport and do not report success.                             *)
(***************************************************************************)
C12_OversizeLengthRejected ==
    (/\ issued.op \in {"read_binary", "st_read_binary", "update_binary"}
     /\ issued.length > MAX_OPERATION_SIZE)
        => /\ hist.io = <<>>
           /\ last.ret # M24SR_SUCCESS

(***************************************************************************)
(* C13: any two consecutive encodes of an information block, for any pair  *)
(* of command kinds, produce header bytes whose sequence bit (bit 0)       *)
(* differs; every header byte is 0x02 or 0x03, and the first encode after  *)
(* start-up produces 0x02.                                                 *)
(***************************************************************************)
C13_SequenceBitAlternates ==
    LET E == Encodes(hist.io)
    IN  /\ \A i \in 1..Len(E) : E[i].pcb \in {2, 3}
        /\ Len(E) = 2 => E[1].pcb % 2 # E[2].pcb % 2
        /\ \A i \in 1..Len(E) : E[i].first => E[i].pcb = 2

\* a verify and then a read_binary have been encoded, neither of them the
\* first encode
C13_Witness ==
    LET E == Encodes(hist.io)
    IN  /\ Len(E) = 2
        /\ E[1].kind = "verify"
        /\ E[2].kind = "read_binary"
        /\ ~E[1].first
        /\ E[2].pcb = 3

(***************************************************************************)
(* C14: every completion of a command is delivered through the callback of *)
(* that same command kind, on every path (send failure, poll failure,      *)
(* receive failure, validated response): every callback recorded for the   *)
(* issued command is the one that belongs to its operation.                *)
(***************************************************************************)
C14_CallbackOfSameKind ==
    issued.op \in CommandOps =>
        \A i \in 1..Len(hist.cbs) : hist.cbs[i].cb = CallbackOf[issued.op]

(***************************************************************************)
(* C15: the completion callback of a command receives the original         *)
(* parameters of that very command: offset, length and buffer for          *)
(* read_binary, st_read_binary and update_binary, the password kind for    *)
(* the password commands, in both modes and after any earlier commands.    *)
(***************************************************************************)
C15_CallbackHasOwnParameters ==
    issued.op \in CommandOps =>
        \A i \in 1..Len(hist.cbs) :
            /\ hist.cbs[i].offset = issued.offset
            /\ hist.cbs[i].length = issued.length
            /\ hist.cbs[i].data = issued.data

(***************************************************************************)
(* C16: for every non-empty byte span b, compute_crc over b followed by    *)
(* the CRC of b, low byte first, is 0; every frame build_I_block_command   *)
(* produces under a mask that selects the CRC field, and every wait-time   *)
(* acknowledgement send_fwt_extension sends, has zero residue over its     *)
(* whole length.                                                           *)
(***************************************************************************)
C16_CrcResidueIsZero ==
    /\ last.op = "compute_crc" =>
          LET b == issued.data
              crc16 == last.ret
          IN  /\ Len(b) >= 1
              /\ compute_crc(b \o <<crc16 % 256, crc16 \div 256>>, Len(b) + 2) = 0
    /\ (last.op = "build_I_block_command" /\ AND16(issued.mask, CRC_NEEDED) # 0) =>
          /\ issued.length = Len(_buffer)
          /\ compute_crc(_buffer, Len(_buffer)) = 0
    /\ \A i \in 1..Len(hist.io) :
          IsAck(hist.io[i]) =>
              /\ hist.io[i].n = 4
              /\ compute_crc(hist.io[i].frame, 4) = 0
    /\ last.op = "send_fwt_extension" => IsAck(hist.io[Len(Encodes(hist.io)) + 1])

\* the 24-byte frame of change_reference_data has been encoded
C16_Witness ==
    /\ last.op = "build_I_block_command"
    /\ issued.kind = "change_reference_data"
    /\ AND16(issued.mask, CRC_NEEDED) # 0
    /\ Len(_buffer) = 24
    /\ SubSeq(_buffer, 7, 22) = Password

(***************************************************************************)
(* C17: build_I_block_command emits header, device-id, class, instruction, *)
(* P1, P2, LC, payload, LE, CRC in this order, a field being present if    *)
(* and only if the mask selects it, and the frame length is the sum of     *)
(* the sizes of the selected fields (payload LC bytes, CRC 2 bytes).       *)
(***************************************************************************)
C17_FieldsFollowMask ==
    last.op = "build_I_block_command" =>
        LET selected(flag) == AND16(issued.mask, flag) # 0
            field(flag, bytes) == IF selected(flag) THEN bytes ELSE <<>>
            c == issued.command
            payload == IF c.data.ptr # "null"
                       THEN SubSeq(c.data.bytes, 1, c.LC)
                       ELSE Zeros(c.LC)
            body == field(PCB_NEEDED, <<2 + block_number>>)
                    \o field(DID_NEEDED, <<0>>)
                    \o field(CLA_NEEDED, <<c.CLA>>)
                    \o field(INS_NEEDED, <<c.INS>>)
                    \o field(P1_NEEDED, <<c.P1>>)
                    \o field(P2_NEEDED, <<c.P2>>)
                    \o field(LC_NEEDED, <<c.LC>>)
                    \o field(DATA_NEEDED, payload)
                    \o field(LE_NEEDED, <<c.LE>>)
            crc16 == compute_crc(body, Len(body))
            frame == body \o field(CRC_NEEDED, <<GETLSB(crc16), GETMSB(crc16)>>)
        IN  /\ _buffer = frame
            /\ issued.length = Len(frame)

(***************************************************************************)
(* C18: verify with a valid password kind hands to the transport, for a    *)
(* non-null password, the frame header, CLA 0x00, INS 0x20, P1/P2 = kind   *)
(* (high byte, low byte), LC 0x10, the 16 password bytes in order, CRC     *)
(* (the layout of CMD_MASK_VERIFYBINARYWITHPWD); for a null password, the  *)
(* frame header, CLA, INS, P1/P2, LC 0x00, CRC with no payload bytes (the  *)
(* layout of CMD_MASK_VERIFYBINARYWOPWD).                                  *)
(***************************************************************************)
C18_VerifyEncoding ==
    (/\ issued.op = "verify"
     /\ last.op = "verify"
     /\ ~InvalidPasswordType("verify", issued.offset)) =>
        LET type == issued.offset
            head == <<2 + block_number, 0, 32, type \div 256, type % 256>>
            body == IF issued.data # "null"
                    THEN head \o <<16>> \o Password
                    ELSE head \o <<0>>
            crc16 == compute_crc(body, Len(body))
        IN  /\ hist.io # <<>>
            /\ hist.io[1].t = "send"
            /\ hist.io[1].frame = body \o <<crc16 % 256, crc16 \div 256>>
            /\ hist.io[1].n = IF issued.data # "null" THEN 24 ELSE 8

\* verify(READ_PASSWORD, password) has sent its 24-byte frame and the chip
\* has accepted the password
C18_Witness ==
    /\ issued.op = "verify"
    /\ last.op = "verify"
    /\ issued.offset = READ_PASSWORD
    /\ issued.data = "pwd"
    /\ Len(hist.io) >= 1
    /\ hist.io[1].t = "send"
    /\ hist.io[1].ok
    /\ SubSeq(hist.io[1].frame, 7, 22) = Password
    /\ last.ret = M24SR_SUCCESS

(***************************************************************************)
(* Reading a frame back against the mask it was encoded with.  Unselected  *)
(* fields read as -1 (the payload as the empty sequence).  The frame is    *)
(* read as build_I_block_command lays it out: header, class, instruction,  *)
(* P1, P2, LC, payload of LC bytes, LE.                                    *)
(***************************************************************************)
decode_I_block(mask, frame) ==
    LET selected(flag) == AND16(mask, flag) # 0
        size(flag) == IF selected(flag) THEN 1 ELSE 0
        at(flag, pos) == IF selected(flag) THEN frame[pos] ELSE -1
        pCLA  == size(PCB_NEEDED) + 1
        pINS  == pCLA + size(CLA_NEEDED)
        pP1   == pINS + size(INS_NEEDED)
        pP2   == pP1 + size(P1_NEEDED)
        pLC   == pP2 + size(P2_NEEDED)
        pDATA == pLC + size(LC_NEEDED)
        lc    == IF selected(LC_NEEDED) THEN frame[pLC] ELSE 0
        pLE   == pDATA + (IF selected(DATA_NEEDED) THEN lc ELSE 0)
    IN  [CLA |-> at(CLA_NEEDED, pCLA), INS |-> at(INS_NEEDED, pINS),
         P1 |-> at(P1_NEEDED, pP1), P2 |-> at(P2_NEEDED, pP2),
         LC |-> at(LC_NEEDED, pLC),
         payload |-> IF selected(DATA_NEEDED)
                     THEN SubSeq(frame, pDATA, pDATA + lc - 1) ELSE <<>>,
         LE |-> at(LE_NEEDED, pLE)]

\* the mask-selected fields of a C_APDU, the payload by its LC bytes
SelectedFields(mask, command) ==
    LET selected(flag) == AND16(mask, flag) # 0
    IN  [CLA |-> IF selected(CLA_NEEDED) THEN command.CLA ELSE -1,
         INS |-> IF selected(INS_NEEDED) THEN command.INS ELSE -1,
         P1 |-> IF selected(P1_NEEDED) THEN command.P1 ELSE -1,
         P2 |-> IF selected(P2_NEEDED) THEN command.P2 ELSE -1,
         LC |-> IF selected(LC_NEEDED) THEN command.LC ELSE -1,
         payload |-> IF selected(DATA_NEEDED)
                     THEN IF command.data.ptr # "null"
                          THEN SubSeq(command.data.bytes, 1, command.LC)
                          ELSE Zeros(command.LC)
                     ELSE <<>>,
         LE |-> IF selected(LE_NEEDED) THEN command.LE ELSE -1]

\* the descriptors of the same mask that differ from the encoded one in a
\* mask-selected field
DifferingDescriptors ==
    { e \in CommandDescriptors :
        /\ e.mask = issued.mask
        /\ SelectedFields(e.mask, e.command) # SelectedFields(issued.mask, issued.command) }

(***************************************************************************)
(* C19: reading the bytes build_I_block_command emitted back against the   *)
(* mask used recovers every mask-selected field of the descriptor (class,  *)
(* instruction, P1, P2, LC, payload, LE); two descriptors that differ in   *)
(* a mask-selected field never give the same frame under the same          *)
(* sequence bit.                                                           *)
(***************************************************************************)
C19_FieldRoundTrip ==
    last.op = "build_I_block_command" =>
        /\ decode_I_block(issued.mask, _buffer)
               = SelectedFields(issued.mask, issued.command)
        /\ \A e \in DifferingDescriptors :
               build_I_block_command(e.mask, e.command, 0, 1 - block_number).buffer
                   # _buffer

\* an update_binary frame with payload has been encoded, and other
\* descriptors share its mask
C19_Witness ==
    /\ last.op = "build_I_block_command"
    /\ issued.kind = "update_binary"
    /\ issued.command.LC = MaxLen
    /\ decode_I_block(issued.mask, _buffer).payload # <<>>
    /\ Cardinality(DifferingDescriptors) >= 2

\* the pending command kind each operation records
PendingKindOf ==
    [op \in CommandOps |->
        CASE op = "deselect" -> "DESELECT"
          [] op = "select_application" -> "SELECT_APPLICATION"
          [] op = "select_cc_file" -> "SELECT_CC_FILE"
          [] op = "select_system_file" -> "SELECT_SYSTEM_FILE"
          [] op = "select_ndef_file" -> "SELECT_NDEF_FILE"
          [] op = "read_binary" -> "READ"
          [] op = "st_read_binary" -> "READ"
          [] op = "update_binary" -> "UPDATE"
          [] op = "verify" -> "VERIFY"
          [] op = "change_reference_data" -> "CHANGE_REFERENCE_DATA"
          [] op = "enable_verification_requirement" -> "ENABLE_VERIFICATION_REQUIREMENT"
          [] op = "disable_verification_requirement" -> "DISABLE_VERIFICATION_REQUIREMENT"
          [] op = "enable_permanent_state" -> "ENABLE_PERMANET_STATE"
          [] op = "disable_permanent_state" -> "DISABLE_PERMANET_STATE"]

(***************************************************************************)
(* C20: every command operation sets the pending command kind before it    *)
(* hands the request frame to the transport send: when the send of the     *)
(* request starts, the pending kind is already the kind of the command     *)
(* being sent.                                                             *)
(***************************************************************************)
C20_PendingSetBeforeSend ==
    (/\ last.op \in CommandOps
     /\ issued.op = last.op
     /\ hist.io # <<>>
     /\ hist.io[1].t = "send") =>
        hist.io[1].pending = PendingKindOf[last.op]

(***************************************************************************)
(* C21: the chip sees strict alternation of the sequence bit: any two      *)
(* information blocks transmitted successfully one after the other have    *)
(* different sequence bits, also when encodes whose send failed occurred   *)
(* between them.                                                           *)
(***************************************************************************)
C21_ChipSeesAlternation ==
    LET D == SelectSeq(hist.io, IsDelivered)
    IN  \A i \in 1..(Len(D) - 1) : D[i].frame[1] % 2 # D[i + 1].frame[1] % 2

\* a received supervisory frame that is a wait-time-extension request:
\* header 0xF2, one FWT byte, correct CRC
IsWtxRequest(e) ==
    /\ e.t = "recv"
    /\ e.ok
    /\ Len(e.frame) >= 4
    /\ e.frame[1] = 242
    /\ compute_crc(SubSeq(e.frame, 1, 4), 4) = 0

(***************************************************************************)
(* C22: for every command kind that awaits an application response, a      *)
(* wait-time-extension frame received in place of the response is          *)
(* acknowledged and the receive re-issued; the wait-time frame is never    *)
(* validated as the final response of the command: no callback and no      *)
(* return value is derived from it.                                        *)
(***************************************************************************)
C22_WtxAcknowledgedEverywhere ==
    (issued.op \in CommandOps \ {"deselect"}) =>
        \A i \in 1..Len(hist.io) :
            IsWtxRequest(hist.io[i]) =>
                /\ i < Len(hist.io)
                /\ IsAck(hist.io[i + 1])

(***************************************************************************)
(* C23: a wait-time acknowledgement is transmitted only in reply to a      *)
(* supervisory frame that is a wait-time-extension request, never in reply *)
(* to another supervisory frame (such as a deselect S-block with header    *)
(* 0xC2) received as the response to update_binary.                        *)
(***************************************************************************)
C23_AckOnlyForWtxRequest ==
    issued.op = "update_binary" =>
        \A i \in 1..Len(hist.io) :
            IsAck(hist.io[i]) =>
                /\ i > 1
                /\ IsWtxRequest(hist.io[i - 1])

\* the top two bits of a received frame's header
HeaderKind(frame) == frame[1] \div 64

(***************************************************************************)
(* C24: receive_update_binary classifies the received frame from its       *)
(* header before any CRC validation.  A frame takes the supervisory path   *)
(* (CRC window of 4 bytes, then acknowledgement carrying its FWT byte) if  *)
(* and only if the top two bits of its header are 11; a frame with top     *)
(* bits 00, 01 or 10 is validated over the 5-byte status window and the    *)
(* result is delivered as the command's completion.                        *)
(***************************************************************************)
C24_ClassifiedFromHeader ==
    issued.op = "update_binary" =>
        \A i \in 1..Len(hist.io) :
            LET e == hist.io[i]
            IN  (e.t = "recv" /\ e.ok) =>
                    IF HeaderKind(e.frame) = 3
                    THEN IF is_correct_crc_residue(e.frame, WATINGTIMEEXTRESPONSE_NBBYTE)
                                # M24SR_IO_ERROR_CRC
                         THEN /\ i < Len(hist.io)
                              /\ IsAck(hist.io[i + 1])
                              /\ hist.io[i + 1].frame[2] = e.frame[2]
                         ELSE i = Len(hist.io)
                    ELSE /\ i = Len(hist.io)
                         /\ Len(hist.cbs) >= 1
                         /\ hist.cbs[Len(hist.cbs)].cb = "on_updated_binary"
                         /\ hist.cbs[Len(hist.cbs)].status
                                = is_correct_crc_residue(e.frame, STATUSRESPONSE_NBBYTE)

\* update_binary was answered by a wait-time request, acknowledged it, and was
\* then answered by a receive-ready block, which went to the validator
C24_Witness ==
    /\ issued.op = "update_binary"
    /\ Len(hist.io) >= 5
    /\ IsWtxRequest(hist.io[Len(hist.io) - 3])
    /\ IsAck(hist.io[Len(hist.io) - 2])
    /\ hist.io[Len(hist.io)].t = "recv"
    /\ hist.io[Len(hist.io)].ok
    /\ HeaderKind(hist.io[Len(hist.io)].frame) = 2
    /\ Len(hist.cbs) = 1
    /\ hist.cbs[1].status = M24SR_SUCCESS

(***************************************************************************)
(* C25: the wait-time acknowledgement handed to the transport is the four  *)
(* bytes 0xF2, fwt_byte, crcLow, crcHigh, fwt_byte being the byte at index *)
(* 1 of the received request and the CRC computed over the first two       *)
(* bytes; building it does not go through the command mask (no other       *)
(* field, the frame buffer of the command untouched) and does not toggle   *)
(* the sequence bit: a resumption never changes the bit, a command toggles *)
(* it once however many acknowledgements it sends.                         *)
(***************************************************************************)
C25_AcknowledgementFrame ==
    [][/\ \A i \in 1..Len(hist'.io) :
              IsAck(hist'.io[i]) =>
                  LET fwt_byte == hist'.io[i - 1].frame[2]
                      crc16 == compute_crc(<<242, fwt_byte>>, 2)
                  IN  /\ hist'.io[i - 1].t = "recv"
                      /\ hist'.io[i].n = 4
                      /\ hist'.io[i].frame
                            = <<242, fwt_byte, crc16 % 256, crc16 \div 256>>
       /\ last'.op = "manage_event" =>
              /\ block_number' = block_number
              /\ _buffer' = _buffer
       /\ last'.op = "update_binary" =>
              /\ block_number' = 1 - block_number
              /\ _buffer'[1] = 2 + block_number'
              /\ Len(_buffer') = 8 + issued'.length]_vars

\* a resumption has received the wait-time request F2 0B and acknowledged it
\* with F2 0B CB EF
C25_Witness ==
    /\ issued.op = "update_binary"
    /\ last.op = "manage_event"
    /\ Len(hist.io) >= 3
    /\ IsWtxRequest(hist.io[Len(hist.io) - 1])
    /\ hist.io[Len(hist.io)].t = "send"
    /\ hist.io[Len(hist.io)].ok
    /\ hist.io[Len(hist.io)].frame = <<242, 11, 203, 239>>
    /\ _last_command = "UPDATE"

(***************************************************************************)
(* C26: in asynchronous mode a command operation never blocks: after a     *)
(* successful send it performs no poll and no receive, delivers no         *)
(* callback, returns success and leaves the pending kind equal to the      *)
(* issued command; the next manage_event then performs exactly one         *)
(* receive, of the response length of that command, and any callback it    *)
(* delivers is the one of that command kind.                               *)
(***************************************************************************)
C26_AsyncNeverBlocks ==
    [][/\ (/\ _communication_type = "ASYNC"
           /\ last'.op \in CommandOps
           /\ Len(hist'.io) >= 1
           /\ hist'.io[1].t = "send"
           /\ hist'.io[1].ok)
          => /\ Len(hist'.io) = 1
             /\ hist'.cbs = <<>>
             /\ last'.ret = M24SR_SUCCESS
             /\ _last_command' = PendingKindOf[last'.op]
             /\ ~done'
       /\ (/\ _communication_type = "ASYNC"
           /\ last.op \in CommandOps
           /\ ~done
           /\ Len(hist.io) = 1
           /\ hist.io[1].ok
           /\ last'.op = "manage_event")
          => /\ Len(hist'.io) >= 2
             /\ hist'.io[2].t = "recv"
             /\ hist'.io[2].n = (IF issued.op = "deselect" THEN 4
                                 ELSE IF issued.op \in {"read_binary", "st_read_binary"}
                                 THEN issued.length + STATUSRESPONSE_NBBYTE
                                 ELSE STATUSRESPONSE_NBBYTE)
             /\ Len(Recvs(hist'.io)) = 1
             /\ \A k \in 1..Len(hist'.cbs) : hist'.cbs[k].cb = CallbackOf[issued.op]]_vars

\* an asynchronous read_binary was left pending and the next manage_event
\* received its response and delivered the data
C26_Witness ==
    /\ _communication_type = "ASYNC"
    /\ issued.op = "read_binary"
    /\ issued.length = MaxLen
    /\ last.op = "manage_event"
    /\ Len(hist.io) = 2
    /\ hist.io[1].ok
    /\ hist.io[1].pending = NONE
    /\ hist.io[2].t = "recv"
    /\ hist.io[2].ok
    /\ Len(hist.cbs) = 1
    /\ hist.cbs[1].status = M24SR_SUCCESS
    /\ done

(***************************************************************************)
(* C27: once a command's completion callback has been delivered and no new *)
(* command has been issued, every later call of manage_event performs no   *)
(* transport receive and delivers no callback, for every command kind and  *)
(* in both modes.                                                          *)
(***************************************************************************)
C27_ResumeAfterCompletionIsNoOp ==
    [][(/\ Finished
        /\ Len(hist.cbs) >= 1
        /\ last'.op = "manage_event")
       => hist' = hist]_vars

(***************************************************************************)
(* C28: no silent retries: for every command operation the request frame   *)
(* is handed to the transport send exactly once, whatever the outcome; the *)
(* only additional frames transmitted during the exchange are wait-time    *)
(* acknowledgements, one per received wait-time request.                   *)
(***************************************************************************)
C28_NoSilentRetries ==
    (issued.op \in CommandOps /\ hist.io # <<>>) =>
        /\ hist.io[1].t = "send"
        /\ ~IsAck(hist.io[1])
        /\ \A i \in 2..Len(hist.io) : hist.io[i].t = "send" => IsAck(hist.io[i])
        /\ Acks(hist.io) = Len(SelectSeq(hist.io, IsWtxRequest))

(***************************************************************************)
(* C29: in asynchronous mode, a manage_event that receives a CRC-valid     *)
(* wait-time-extension frame for a pending update_binary transmits one     *)
(* acknowledgement, delivers no callback, returns success, re-arms the     *)
(* pending kind to UPDATE and leaves the recorded offset, length and data  *)
(* unchanged; the on_updated_binary delivered after it carries the         *)
(* parameters the update was issued with.                                  *)
(***************************************************************************)
C29_AsyncWtxKeepsParameters ==
    [][(/\ _communication_type = "ASYNC"
        /\ last'.op = "manage_event"
        /\ _last_command = "UPDATE"
        /\ issued.op = "update_binary"
        /\ hist.io[1].ok)
       => /\ (/\ Len(hist'.io) > Len(hist.io)
              /\ IsWtxRequest(hist'.io[Len(hist.io) + 1]))
             => /\ Len(hist'.io) = Len(hist.io) + 2
                /\ IsAck(hist'.io[Len(hist.io) + 2])
                /\ hist'.io[Len(hist.io) + 2].ok
                      => /\ hist'.cbs = hist.cbs
                         /\ last'.ret = M24SR_SUCCESS
                         /\ _last_command' = "UPDATE"
                         /\ _last_command_data' = _last_command_data
                         /\ ~done'
          /\ \A k \in 1..Len(hist'.cbs) :
                /\ hist'.cbs[k].cb = "on_updated_binary"
                /\ hist'.cbs[k].offset = issued.offset
                /\ hist'.cbs[k].length = issued.length
                /\ hist'.cbs[k].data = issued.data]_vars

\* an asynchronous update_binary(0x0102, MaxLen bytes) was resumed twice: the
\* first manage_event acknowledged a wait-time request, the second received
\* the final response and delivered the callback
C29_Witness ==
    /\ _communication_type = "ASYNC"
    /\ issued.op = "update_binary"
    /\ issued.offset = 258
    /\ issued.length = MaxLen
    /\ last.op = "manage_event"
    /\ Len(hist.io) = 4
    /\ IsWtxRequest(hist.io[2])
    /\ IsAck(hist.io[3])
    /\ hist.io[3].ok
    /\ hist.io[4].t = "recv"
    /\ Len(hist.cbs) = 1
    /\ hist.cbs[1].status = M24SR_SUCCESS
    /\ hist.cbs[1].offset = 258

(***************************************************************************)
(* C30: when the payload pointer is null and the mask selects the payload  *)
(* field, build_I_block_command emits LC bytes of 0x00 as payload:         *)
(* change_reference_data with a null password hands to the transport the   *)
(* frame header, CLA 0x00, INS 0x24, P1/P2 = password kind, LC = 0x10, 16  *)
(* zero bytes, CRC.                                                        *)
(***************************************************************************)
C30_NullPayloadZeroFilled ==
    (/\ issued.op = "change_reference_data"
     /\ issued.data = "null"
     /\ ~InvalidPasswordType("change_reference_data", issued.offset)) =>
        LET type == issued.offset
            body == <<2 + block_number, C_APDU_CLA_DEFAULT, C_APDU_CHANGE,
                      type \div 256, type % 256, PASSWORD_NBBYTE>>
                    \o [i \in 1..PASSWORD_NBBYTE |-> 0]
            crc16 == compute_crc(body, Len(body))
        IN  /\ AND16(CMD_MASK_CHANGEREFDATA, DATA_NEEDED) # 0
            /\ hist.io # <<>>
            /\ hist.io[1].t = "send"
            /\ hist.io[1].n = 24
            /\ hist.io[1].frame = body \o <<crc16 % 256, crc16 \div 256>>

\* change_reference_data(READ_PASSWORD, NULL) has transmitted its frame and
\* the chip has answered 0x9000
C30_Witness ==
    /\ issued.op = "change_reference_data"
    /\ issued.data = "null"
    /\ last.op = "change_reference_data"
    /\ Len(hist.io) = 3
    /\ hist.io[1].ok
    /\ hist.io[1].frame[6] = 16
    /\ SubSeq(hist.io[1].frame, 7, 22) = [i \in 1..16 |-> 0]
    /\ last.ret = M24SR_SUCCESS


(***************************************************************************)
(* C31: the 8-bit lengths handed to compute_crc, to the validator and to   *)
(* the transport are the true byte counts, for every length argument up to *)
(* 255: the request frame of update_binary has 8 bytes more than the       *)
(* payload it carries and at most 254, its CRC is computed over all bytes  *)
(* before it (never over none), the request of a read has 8 bytes, the     *)
(* response length requested by a read is the carried length plus 5 and at *)
(* most 251, every frame handed over has the length announced, and the     *)
(* status delivered for a read is the validator's over the whole response. *)
(***************************************************************************)
C31_LengthsAreTrueCounts ==
    (/\ issued.op \in {"read_binary", "st_read_binary", "update_binary"}
     /\ hist.io # <<>>) =>
        LET carried == IF issued.length > 246 THEN 246 ELSE issued.length
            isRead  == issued.op # "update_binary"
            request == hist.io[1]
            final   == hist.io[Len(hist.io)]
        IN  /\ request.t = "send"
            /\ request.n = IF isRead THEN 8 ELSE 8 + carried
            /\ request.n <= 254
            /\ request.n - 2 >= 1
            /\ Len(request.frame) = request.n
            /\ compute_crc(request.frame, request.n) = 0
            /\ \A i \in 1..Len(hist.io) :
                    hist.io[i].t = "recv" =>
                        /\ hist.io[i].n = IF isRead THEN carried + 5 ELSE 5
                        /\ hist.io[i].n <= 251
                        /\ hist.io[i].ok /\ ~IsSFrame(hist.io[i])
                                => Len(hist.io[i].frame) = hist.io[i].n
            /\ (isRead /\ final.t = "recv" /\ final.ok /\ ~IsSFrame(final)) =>
                    /\ hist.cbs # <<>>
                    /\ hist.cbs[Len(hist.cbs)].status
                            = is_correct_crc_residue(final.frame, final.n)

\* update_binary and read_binary called with length 255 have exchanged the
\* longest frames: a request of 254 bytes, a response of 251 bytes
C31_Witness ==
    /\ issued.length = 255
    /\ hist.io # <<>>
    /\ \/ /\ issued.op = "update_binary"
          /\ hist.io[1].n = 254
          /\ hist.io[1].frame[6] = 246
          /\ last.ret = M24SR_SUCCESS
       \/ /\ issued.op = "read_binary"
          /\ hist.io[Len(hist.io)].t = "recv"
          /\ Len(hist.io[Len(hist.io)].frame) = 251
          /\ last.ret = M24SR_SUCCESS


(***************************************************************************)
(* C32: the sequence bit belongs to one driver instance: an encode on one  *)
(* instance leaves the sequence bit of every other instance as it was, so  *)
(* the header byte an instance produces has the sequence bit opposite to   *)
(* that of the header byte the same instance produced before, whatever the *)
(* other instances encoded in between.                                     *)
(***************************************************************************)
C32_SequenceBitPerInstance ==
    [][\A i \in 1..Len(hist.io) :
            LET encoded == hist'.io[Len(hist'.io)]
            IN  hist.io[i].inst = encoded.inst
                    => hist.io[i].pcb % 2 # encoded.pcb % 2]_vars


(***************************************************************************)
(* C33: the wait-time-extension loop is capped: an update_binary exchange  *)
(* in which the chip has answered every receive with a wait-time-extension *)
(* request, MaxWtx times, has been stopped by the engine: the command is   *)
(* finished, nothing is pending, and its completion callback has reported  *)
(* an error.                                                               *)
(***************************************************************************)
C33_WtxLoopCapped ==
    (/\ issued.op = "update_binary"
     /\ Len(Recvs(hist.io)) = MaxWtx
     /\ \A i \in 1..Len(hist.io) : hist.io[i].t = "recv" => IsWtxRequest(hist.io[i]))
        => /\ done
           /\ _last_command = NONE
           /\ hist.cbs # <<>>
           /\ hist.cbs[Len(hist.cbs)].status # M24SR_SUCCESS


(***************************************************************************)
(* C34: in synchronous mode the readiness poll never reports an error, so  *)
(* no command ends in its poll-failure branch (with the poll as its last   *)
(* transport event, or with a poll that was not acknowledged), and it is   *)
(* the only blocking point: when the transport eventually acknowledges the *)
(* poll and the chip sends finitely many wait-time requests, a synchronous *)
(* command that has been called eventually returns.                        *)
(***************************************************************************)
C34_PollOnlyBlocksAndNeverFails ==
    /\ [](/\ \A i \in 1..Len(hist.io) : hist.io[i].t = "poll" => hist.io[i].ok
          /\ hist.io # <<>> => hist.io[Len(hist.io)].t # "poll")
    /\ [](~done => <>done)

\* update_binary has blocked in the poll three times, has acknowledged two
\* wait-time requests and has returned the status of the chip
C34_Witness ==
    /\ issued.op = "update_binary"
    /\ done
    /\ last.op = "update_binary"
    /\ Acks(hist.io) = 2
    /\ Len(SelectSeq(hist.io, LAMBDA e : e.t = "poll")) = 3
    /\ last.ret = M24SR_SUCCESS


(***************************************************************************)
(* C35: when a receive handler delivers the completion callback of a       *)
(* command, no command is pending, for every command kind: a command       *)
(* whose last transport event is the receive of its response and whose     *)
(* callback has been delivered leaves _last_command = NONE (no handler     *)
(* changes _last_command between invoking the callback and returning).     *)
(***************************************************************************)
C35_NothingPendingAtCompletion ==
    (/\ issued.op \in CommandOps
     /\ hist.cbs # <<>>
     /\ hist.io # <<>>
     /\ hist.io[Len(hist.io)].t = "recv")
        => _last_command = NONE


(***************************************************************************)
(* C36: in synchronous mode the status a command operation returns is the  *)
(* status passed to the completion callback delivered for that command,    *)
(* for every command kind and every outcome: every callback recorded for   *)
(* a command that was called in synchronous mode carries the status the    *)
(* call returned.                                                          *)
(***************************************************************************)
C36_ReturnEqualsCallbackStatus ==
    (/\ _communication_type = "SYNC"
     /\ issued.op \in CommandOps
     /\ last.op = issued.op)
        => \A i \in 1..Len(hist.cbs) : hist.cbs[i].status = last.ret


(***************************************************************************)
(* C37: state_control transmits the GPO-state command frame (CLA 0xA2, INS *)
(* 0xD6, P2 0x1F, LC 1 and one data byte) if and only if the preceding     *)
(* manage_i2c_gpo(STATE_CONTROL) step succeeded; when that step fails, it  *)
(* returns the error of the step and transmits nothing more.               *)
(***************************************************************************)
IsGpoStateFrame(e) ==
    /\ e.t = "send"
    /\ Len(e.frame) = 9
    /\ e.frame[2] = 162
    /\ e.frame[3] = 214
    /\ e.frame[5] = 31
    /\ e.frame[6] = 1

\* the manage_i2c_gpo step of the issued command has returned M24SR_SUCCESS:
\* its select_application has completed with that status
ManageStepSucceeded ==
    /\ hist.cbs # <<>>
    /\ hist.cbs[1].cb = "on_selected_application"
    /\ hist.cbs[1].status = M24SR_SUCCESS

C37_GpoStateSentIffManaged ==
    issued.op = "state_control" =>
        /\ ManageStepSucceeded <=> \E i \in 1..Len(hist.io) : IsGpoStateFrame(hist.io[i])
        /\ ~ManageStepSucceeded =>
                /\ last.ret # M24SR_SUCCESS
                /\ Len(SelectSeq(hist.io, LAMBDA e : e.t = "send")) <= 1

=============================================================================
